---- MODULE Spec2Model ----
(***************************************************************************)
(* The phase-2 complex-lease generator                                     *)
(* (src/phase2_high_field_extraction_at_scale/00_generate_complex_leases.py)*)
(* as a state machine: main() seeds the process-wide random source, then   *)
(* calls generate_complex_lease(1..3); each call runs the nine section     *)
(* generators, merges their mappings and hands the record to               *)
(* build_lease_pdf.                                                        *)
(*                                                                         *)
(* Representation                                                          *)
(*  - Decimal values that the code rounds to 2 places (dollars, percent)   *)
(*    are integers counting hundredths: 4.50 is 450.  Arithmetic is exact; *)
(*    round(x, 2) is round-half-to-even on the exact value (the code's     *)
(*    binary floats agree with it except on some exact ties).              *)
(*  - An f-string is the tuple of its pieces, a formatted date the tuple   *)
(*    <<month name, day, year>>.                                           *)
(*  - The Mersenne Twister is a deterministic generator with RngModulus    *)
(*    states; one raw draw is the fraction Raw/RngModulus of [0, 1).  The  *)
(*    state that random.seed(42) installs is a fixed constant of the       *)
(*    interpreter that the model does not know: Init chooses it.           *)
(***************************************************************************)
EXTENDS Integers, Sequences, FiniteSets, TLC

\* The number of states of the random source, and the resolution of a draw.
RngModulus == 16
\* How many midnights may pass while the batches run.
MaxTicks == 1

----------------------------------------------------------------------------
(* The random source: module random *)

RngStates == 0 .. (RngModulus - 1)

\* One step of the generator.
RngNext(s) == (5 * s + 3) % RngModulus

RECURSIVE Advance(_, _)
\* The state after k draws from state s.
Advance(s, k) == IF k = 0 THEN s ELSE Advance(RngNext(s), k - 1)

\* The k-th raw draw after state s, a numerator over RngModulus.
Raw(s, k) == Advance(s, k)

\* random._randbelow(n): an integer of 0 .. n-1.
randbelow(n, r) == (r * n) \div RngModulus

\* random.randint(a, b): a + randbelow(b - a + 1); needs a <= b.
randint(a, b, r) == a + randbelow(b - a + 1, r)

\* random.choice(seq): seq[randbelow(len(seq))] (Python counts from 0).
choice(seq, r) == seq[randbelow(Len(seq), r) + 1]

\* round(n / d, 0) for n >= 0, d > 0: round half to even.
RoundHalfEven(n, d) ==
    LET q == n \div d
        rem == n % d
    IN  IF 2 * rem > d \/ (2 * rem = d /\ q % 2 = 1) THEN q + 1 ELSE q

\* round(random.uniform(low, high), 2), low and high in hundredths:
\* uniform is low + (high - low) * random().
Round2Uniform(low, high, r) ==
    RoundHalfEven(low * RngModulus + (high - low) * r, RngModulus)

\* rand_dollar(low, high)
rand_dollar(low, high, r) == Round2Uniform(low, high, r)

\* rand_pct(low, high)
rand_pct(low, high, r) == Round2Uniform(low, high, r)

\* round(sqft * psf, 2), psf in hundredths: the product is a whole number of
\* hundredths.
MulRound2(sqft, psf) == RoundHalfEven(sqft * psf, 1)

\* round(sqft * psf, 2) for a product beyond the checker's 32-bit integers:
\* dollars and cents apart.
MulRound2Wide(sqft, psf) ==
    LET whole == sqft * (psf \div 100)
        part == sqft * (psf % 100)
    IN  [dollars |-> whole + (part \div 100), cents |-> part % 100]

\* C4 mutant: the escalated rent is cut off, not rounded.
Escalate_Truncated(x, pct) ==
    x + ((x \div 10000) * pct) + (((x % 10000) * pct) \div 10000)

\* C27 mutant: the factor is pct / 100, the `1 +` lost.
Escalate_FactorOnly(x, pct) ==
    ((x \div 10000) * pct) + (((x % 10000) * pct) \div 10000)

\* round(x * (1 + pct / 100), 2), x and pct in hundredths: x * (10000 + pct)
\* / 10000, computed in two halves to stay within 32 bits.
Escalate(x, pct) ==
    LET hi == x \div 10000
        lo == x % 10000
        base == x + (hi * pct) + ((lo * pct) \div 10000)
        rem == (lo * pct) % 10000
    IN  IF 2 * rem > 10000 \/ (2 * rem = 10000 /\ base % 2 = 1)
        THEN base + 1 ELSE base

\* round(sqft / random.uniform(low, high), 2), low and high whole numbers.
DivRound2Uniform(sqft, low, high, r) ==
    LET n == sqft * RngModulus
        d == low * RngModulus + (high - low) * r
        q == n \div d
        n2 == (n % d) * 100
        h == (q * 100) + (n2 \div d)
        rem == n2 % d
    IN  IF 2 * rem > d \/ (2 * rem = d /\ h % 2 = 1) THEN h + 1 ELSE h

----------------------------------------------------------------------------
(* Dates: datetime, timedelta, dateutil.relativedelta *)

IsLeap(y) == y % 4 = 0 /\ (y % 100 # 0 \/ y % 400 = 0)

DaysInMonth(y, m) ==
    IF m = 2 THEN (IF IsLeap(y) THEN 29 ELSE 28)
    ELSE IF m \in {4, 6, 9, 11} THEN 30 ELSE 31

DaysInYear(y) == IF IsLeap(y) THEN 366 ELSE 365

RECURSIVE DaysBeforeMonth(_, _)
DaysBeforeMonth(y, m) ==
    IF m = 1 THEN 0 ELSE DaysBeforeMonth(y, m - 1) + DaysInMonth(y, m - 1)

DaysBeforeYear(y) ==
    ((y - 1) * 365) + ((y - 1) \div 4) - ((y - 1) \div 100) + ((y - 1) \div 400)

\* date.toordinal(): day 1 is 0001-01-01.
ToOrdinal(dt) == DaysBeforeYear(dt.y) + DaysBeforeMonth(dt.y, dt.m) + dt.d

RECURSIVE MonthOfDay(_, _, _)
MonthOfDay(y, m, n) ==
    IF n <= DaysInMonth(y, m) THEN [y |-> y, m |-> m, d |-> n]
    ELSE MonthOfDay(y, m + 1, n - DaysInMonth(y, m))

RECURSIVE YearOfDay(_, _)
YearOfDay(y, n) ==
    IF n <= DaysInYear(y) THEN MonthOfDay(y, 1, n)
    ELSE YearOfDay(y + 1, n - DaysInYear(y))

\* date.fromordinal(n)
FromOrdinal(n) ==
    LET y0 == ((n - 1) \div 366) + 1
    IN  YearOfDay(y0, n - DaysBeforeYear(y0))

\* C26 mutant: the days are added whatever their sign (start + timedelta
\* for start - timedelta).
AddDays_Unsigned(dt, k) ==
    FromOrdinal(ToOrdinal(dt) + (IF k < 0 THEN 0 - k ELSE k))

\* dt + timedelta(days=k)
AddDays(dt, k) == FromOrdinal(ToOrdinal(dt) + k)

\* dt + relativedelta(months=k): the day is clipped to the month's length.
AddMonths(dt, k) ==
    LET y == dt.y + (dt.m - 1 + k) \div 12
        m == ((dt.m - 1 + k) % 12) + 1
    IN  [y |-> y, m |-> m,
         d |-> IF dt.d <= DaysInMonth(y, m) THEN dt.d ELSE DaysInMonth(y, m)]

MonthNames ==
    <<"January", "February", "March", "April", "May", "June", "July",
      "August", "September", "October", "November", "December">>

\* dt.strftime('%B %d, %Y')
strftime(dt) == <<MonthNames[dt.m], dt.d, dt.y>>

\* rand_date_future(min_days, max_days), with the clock's reading.
rand_date_future(today, min_days, max_days, r) ==
    AddDays(today, randint(min_days, max_days, r))

----------------------------------------------------------------------------
(* Sample data pools *)

MARKETS ==
    <<"Chicago",
      "Dallas-Fort Worth",
      "Atlanta",
      "Inland Empire",
      "Northern New Jersey",
      "Phoenix",
      "Denver",
      "Houston",
      "Memphis",
      "Indianapolis",
      "Columbus",
      "Nashville">>

TENANT_COMPANIES ==
    <<<<"Apex Distribution LLC", "Delaware", "Warehousing & Distribution">>,
      <<"GlobalTech Fulfillment Inc.", "California", "E-Commerce Fulfillment">>,
      <<"Midwest Logistics Partners", "Illinois", "Third-Party Logistics">>,
      <<"SunBelt Supply Chain Co.", "Texas", "Cold Chain Logistics">>,
      <<"Pacific Freight Solutions", "Nevada", "Freight Consolidation">>,
      <<"Eastern Seaboard Warehousing", "New Jersey", "Bulk Storage">>,
      <<"Heartland Manufacturing Corp.", "Ohio", "Light Manufacturing">>,
      <<"Southern Cross Logistics Ltd.", "Georgia", "Cross-Dock Operations">>>>

PROPERTY_ADDRESSES ==
    <<<<"1500 Industrial Parkway", "Romeoville", "IL", "60446", "Will">>,
      <<"8200 Commerce Drive", "Irving", "TX", "75063", "Dallas">>,
      <<"3400 Logistics Boulevard", "McDonough", "GA", "30253", "Henry">>,
      <<"12000 Distribution Way", "Ontario", "CA", "91761", "San Bernardino">>,
      <<"500 Terminal Road", "Elizabeth", "NJ", "07201", "Union">>,
      <<"7800 Warehouse Lane", "Phoenix", "AZ", "85043", "Maricopa">>,
      <<"2200 Crossdock Circle", "Memphis", "TN", "38118", "Shelby">>,
      <<"9100 Fulfillment Drive", "Plainfield", "IN", "46168", "Hendricks">>>>

INSURANCE_CARRIERS ==
    <<"Hartford Financial Services",
      "Zurich Insurance Group",
      "Chubb Limited",
      "Liberty Mutual",
      "Travelers Companies">>

GUARANTOR_NAMES ==
    <<"John R. Whitfield",
      "Margaret A. Chen",
      "Robert S. Patel",
      "Susan K. Yamamoto",
      "David L. Morrison",
      "Patricia M. O'Brien">>

LAW_FIRMS ==
    <<"Baker McKenzie LLP",
      "Jones Day",
      "Kirkland & Ellis LLP",
      "DLA Piper LLP",
      "Latham & Watkins LLP">>

----------------------------------------------------------------------------
(* Data generators for each section *)

\* sub in text, for the substrings and texts gen_core_terms tests: 'Inc' and
\* 'Corp' in the tenant names of TENANT_COMPANIES.
Contains(sub, text) ==
    <<sub, text>> \in
        {<<"Inc", "GlobalTech Fulfillment Inc.">>,
         <<"Corp", "Heartland Manufacturing Corp.">>}

\* generate_lease_id(): f"CX-{random.randint(2024, 2026)}-{random.randint(10000,
\* 99999)}", with draws k and k + 1 after state s.
generate_lease_id(s, k) ==
    <<"CX-", randint(2024, 2026, Raw(s, k)), "-", randint(10000, 99999, Raw(s, k + 1))>>

\* C6 mutant: int(sqft * 0.005), a slipped decimal.
IntOfFivePercent_Slipped(sqft) == sqft \div 200

\* C25 mutant: the office share is written 0.5.
IntOfFivePercent_Half(sqft) == sqft \div 2

\* int(sqft * 0.05): the binary product truncated.  It equals sqft \div 20 for
\* every sqft of 80000 .. 500000.
IntOfFivePercent(sqft) == sqft \div 20

\* C7 mutant: tenant_state comes from a random.choice(TENANT_COMPANIES) of its
\* own, not from the entry tenant_name came from.
gen_core_terms_SeparateDraw(s, today) ==
    LET tenant_entry == choice(TENANT_COMPANIES, Raw(s, 1))
        tenant == tenant_entry[1]
        tenant_state == choice(TENANT_COMPANIES, Raw(s, 2))[2]
        tenant_business == tenant_entry[3]
        address_entry == choice(PROPERTY_ADDRESSES, Raw(s, 2))
        address == address_entry[1]
        city == address_entry[2]
        state == address_entry[3]
        zipcode == address_entry[4]
        county == address_entry[5]
        market == choice(MARKETS, Raw(s, 3))
        start == rand_date_future(today, 30, 120, Raw(s, 4))
        term_months == choice(<<60, 84, 120, 156, 180>>, Raw(s, 5))
        end == AddMonths(start, term_months)
        execution_date == AddDays(start, 0 - randint(14, 60, Raw(s, 6)))
        rent_commence == AddMonths(start, randint(0, 3, Raw(s, 7)))
        sqft == randint(80000, 500000, Raw(s, 8))
        land_acres == DivRound2Uniform(sqft, 15000, 22000, Raw(s, 9))
        office_sqft == randint(2000, IntOfFivePercent(sqft), Raw(s, 10))
        warehouse_sqft == sqft - office_sqft
        clear_height == choice(<<32, 36, 40>>, Raw(s, 11))
        dock_doors == randint(20, 80, Raw(s, 12))
        drive_in_doors == randint(2, 6, Raw(s, 13))
        trailer_parking == randint(40, 150, Raw(s, 14))
        auto_parking == randint(50, 200, Raw(s, 15))
        building_year == randint(2005, 2024, Raw(s, 16))
        tax_parcel == <<randint(10, 99, Raw(s, 17)), "-", randint(100, 999, Raw(s, 18)), "-", randint(1000, 9999, Raw(s, 19))>>
    IN  [
          lease_id |-> generate_lease_id(s, 20),
          execution_date |-> strftime(execution_date),
          landlord_name |-> "Acme Industrial Real Estate, LLC",
          landlord_state |-> "Delaware",
          landlord_entity_type |-> "limited liability company",
          landlord_address |-> "100 Corporate Center Drive, Suite 400, Wilmington, DE 19801",
          tenant_name |-> tenant,
          tenant_state |-> tenant_state,
          tenant_entity_type |-> IF Contains("Inc", tenant) \/ Contains("Corp", tenant) THEN "corporation" ELSE "limited liability company",
          tenant_business_type |-> tenant_business,
          tenant_address |-> <<randint(100, 9999, Raw(s, 22)), " ", choice(<<"Commerce", "Enterprise", "Business">>, Raw(s, 23)), " ", choice(<<"Blvd", "Ave", "Pkwy">>, Raw(s, 24)), ", ", city, ", ", state, " ", zipcode>>,
          property_address |-> <<address, ", ", city, ", ", state, " ", zipcode>>,
          property_city |-> city,
          property_state |-> state,
          property_zip |-> zipcode,
          property_county |-> county,
          market |-> market,
          tax_parcel_id |-> tax_parcel,
          total_rentable_sqft |-> sqft,
          office_sqft |-> office_sqft,
          warehouse_sqft |-> warehouse_sqft,
          land_acres |-> land_acres,
          clear_height_ft |-> clear_height,
          dock_doors |-> dock_doors,
          drive_in_doors |-> drive_in_doors,
          trailer_parking_spaces |-> trailer_parking,
          auto_parking_spaces |-> auto_parking,
          building_year_built |-> building_year,
          lease_start_date |-> strftime(start),
          lease_end_date |-> strftime(end),
          lease_term_months |-> term_months,
          rent_commencement_date |-> strftime(rent_commence),
          lease_execution_city |-> "Wilmington, DE",
          _start |-> start,
          _end |-> end,
          _sqft |-> sqft
        ]

\* gen_core_terms(): Section 1: Core Terms (~30 fields).  s is the state of the random
\* source at the call; the function makes 24 draws.
gen_core_terms(s, today) ==
    LET tenant_entry == choice(TENANT_COMPANIES, Raw(s, 1))
        tenant == tenant_entry[1]
        tenant_state == tenant_entry[2]
        tenant_business == tenant_entry[3]
        address_entry == choice(PROPERTY_ADDRESSES, Raw(s, 2))
        address == address_entry[1]
        city == address_entry[2]
        state == address_entry[3]
        zipcode == address_entry[4]
        county == address_entry[5]
        market == choice(MARKETS, Raw(s, 3))
        start == rand_date_future(today, 30, 120, Raw(s, 4))
        term_months == choice(<<60, 84, 120, 156, 180>>, Raw(s, 5))
        end == AddMonths(start, term_months)
        execution_date == AddDays(start, 0 - randint(14, 60, Raw(s, 6)))
        rent_commence == AddMonths(start, randint(0, 3, Raw(s, 7)))
        sqft == randint(80000, 500000, Raw(s, 8))
        land_acres == DivRound2Uniform(sqft, 15000, 22000, Raw(s, 9))
        office_sqft == randint(2000, IntOfFivePercent(sqft), Raw(s, 10))
        warehouse_sqft == sqft - office_sqft
        clear_height == choice(<<32, 36, 40>>, Raw(s, 11))
        dock_doors == randint(20, 80, Raw(s, 12))
        drive_in_doors == randint(2, 6, Raw(s, 13))
        trailer_parking == randint(40, 150, Raw(s, 14))
        auto_parking == randint(50, 200, Raw(s, 15))
        building_year == randint(2005, 2024, Raw(s, 16))
        tax_parcel == <<randint(10, 99, Raw(s, 17)), "-", randint(100, 999, Raw(s, 18)), "-", randint(1000, 9999, Raw(s, 19))>>
    IN  [
          lease_id |-> generate_lease_id(s, 20),
          execution_date |-> strftime(execution_date),
          landlord_name |-> "Acme Industrial Real Estate, LLC",
          landlord_state |-> "Delaware",
          landlord_entity_type |-> "limited liability company",
          landlord_address |-> "100 Corporate Center Drive, Suite 400, Wilmington, DE 19801",
          tenant_name |-> tenant,
          tenant_state |-> tenant_state,
          tenant_entity_type |-> IF Contains("Inc", tenant) \/ Contains("Corp", tenant) THEN "corporation" ELSE "limited liability company",
          tenant_business_type |-> tenant_business,
          tenant_address |-> <<randint(100, 9999, Raw(s, 22)), " ", choice(<<"Commerce", "Enterprise", "Business">>, Raw(s, 23)), " ", choice(<<"Blvd", "Ave", "Pkwy">>, Raw(s, 24)), ", ", city, ", ", state, " ", zipcode>>,
          property_address |-> <<address, ", ", city, ", ", state, " ", zipcode>>,
          property_city |-> city,
          property_state |-> state,
          property_zip |-> zipcode,
          property_county |-> county,
          market |-> market,
          tax_parcel_id |-> tax_parcel,
          total_rentable_sqft |-> sqft,
          office_sqft |-> office_sqft,
          warehouse_sqft |-> warehouse_sqft,
          land_acres |-> land_acres,
          clear_height_ft |-> clear_height,
          dock_doors |-> dock_doors,
          drive_in_doors |-> drive_in_doors,
          trailer_parking_spaces |-> trailer_parking,
          auto_parking_spaces |-> auto_parking,
          building_year_built |-> building_year,
          lease_start_date |-> strftime(start),
          lease_end_date |-> strftime(end),
          lease_term_months |-> term_months,
          rent_commencement_date |-> strftime(rent_commence),
          lease_execution_city |-> "Wilmington, DE",
          _start |-> start,
          _end |-> end,
          _sqft |-> sqft
        ]

\* gen_financial(core): Section 2: Financial (~50 fields).  s is the state of the random
\* source at the call; the function makes 30 draws.
gen_financial(s, core) ==
    LET sqft == core["_sqft"]
        base_rent_psf == rand_dollar(450, 900, Raw(s, 1))
        annual_rent == MulRound2(sqft, base_rent_psf)
        monthly_rent == RoundHalfEven(annual_rent, 12)
        escalation_pct == rand_pct(200, 400, Raw(s, 2))
        escalation_type == choice(<<"Annual Fixed Percentage", "CPI-Based", "Stepped">>, Raw(s, 3))
        free_rent_months == randint(0, 6, Raw(s, 4))
        security_deposit_months == randint(1, 3, Raw(s, 5))
        security_deposit == MulRound2(security_deposit_months, monthly_rent)
        lc_amount == MulRound2(randint(3, 6, Raw(s, 6)), monthly_rent)
        lc_expiry_months == randint(12, 36, Raw(s, 7))
        lc_burndown == choice(<<"Yes", "No">>, Raw(s, 8))
        ti_psf == rand_dollar(1500, 6500, Raw(s, 9))
        ti_total == MulRound2Wide(sqft, ti_psf)
        ti_deadline_months == randint(12, 24, Raw(s, 10))
        ti_unused == choice(<<"Rent credit", "Forfeited", "Cash payment">>, Raw(s, 11))
        cam_psf == rand_dollar(120, 350, Raw(s, 12))
        tax_psf == rand_dollar(80, 250, Raw(s, 13))
        insurance_psf == rand_dollar(25, 75, Raw(s, 14))
        mgmt_fee_pct == rand_pct(200, 500, Raw(s, 15))
        yr2_rent == Escalate(annual_rent, escalation_pct)
        yr3_rent == Escalate(yr2_rent, escalation_pct)
        yr4_rent == Escalate(yr3_rent, escalation_pct)
        yr5_rent == Escalate(yr4_rent, escalation_pct)
    IN  [
          base_rent_psf |-> base_rent_psf,
          annual_base_rent |-> annual_rent,
          monthly_base_rent |-> monthly_rent,
          rent_escalation_pct |-> escalation_pct,
          rent_escalation_type |-> escalation_type,
          yr1_annual_rent |-> annual_rent,
          yr2_annual_rent |-> yr2_rent,
          yr3_annual_rent |-> yr3_rent,
          yr4_annual_rent |-> yr4_rent,
          yr5_annual_rent |-> yr5_rent,
          rent_payment_day |-> choice(<<1, 5, 10, 15>>, Raw(s, 16)),
          rent_payment_method |-> choice(<<"Wire Transfer", "ACH", "Check">>, Raw(s, 17)),
          free_rent_months |-> free_rent_months,
          free_rent_conditions |-> IF free_rent_months > 0 THEN "Applies to base rent only; NNN charges still payable" ELSE "None",
          security_deposit_amount |-> security_deposit,
          security_deposit_months |-> security_deposit_months,
          security_deposit_form |-> choice(<<"Cash", "Letter of Credit", "Cash or Letter of Credit">>, Raw(s, 18)),
          security_deposit_return_days |-> choice(<<30, 45, 60>>, Raw(s, 19)),
          security_deposit_interest |-> choice(<<"Yes, at money market rate", "No">>, Raw(s, 20)),
          letter_of_credit_amount |-> lc_amount,
          letter_of_credit_issuer_rating |-> "Minimum A-rated financial institution",
          letter_of_credit_expiry_months |-> lc_expiry_months,
          letter_of_credit_burndown |-> lc_burndown,
          letter_of_credit_draw_conditions |-> "Monetary default uncured beyond notice period",
          ti_allowance_psf |-> ti_psf,
          ti_allowance_total |-> ti_total,
          ti_deadline_months |-> ti_deadline_months,
          ti_unused_treatment |-> ti_unused,
          ti_approval_required |-> choice(<<"Yes, Landlord approval for plans", "No, Tenant discretion">>, Raw(s, 21)),
          ti_general_contractor |-> choice(<<"Tenant selection, Landlord approval", "Landlord-designated">>, Raw(s, 22)),
          ti_change_order_cap_pct |-> rand_pct(500, 1500, Raw(s, 23)),
          lease_type |-> choice(<<"Triple Net (NNN)", "Modified Gross", "Absolute Net">>, Raw(s, 24)),
          cam_psf_estimate |-> cam_psf,
          cam_annual_estimate |-> MulRound2(sqft, cam_psf),
          tax_psf_estimate |-> tax_psf,
          tax_annual_estimate |-> MulRound2(sqft, tax_psf),
          insurance_psf_estimate |-> insurance_psf,
          insurance_annual_estimate |-> MulRound2(sqft, insurance_psf),
          mgmt_fee_pct |-> mgmt_fee_pct,
          base_year |-> choice(<<2024, 2025, 2026>>, Raw(s, 25)),
          proration_method |-> choice(<<"Rentable square footage", "Usable square footage">>, Raw(s, 26)),
          late_payment_fee_pct |-> rand_pct(300, 500, Raw(s, 27)),
          late_payment_grace_days |-> choice(<<5, 7, 10>>, Raw(s, 28)),
          interest_on_late_payment_pct |-> rand_pct(800, 1800, Raw(s, 29)),
          holdover_rent_multiplier |-> choice(<<150, 200>>, Raw(s, 30)),
          holdover_rent_type |-> "Percentage of then-current base rent"
        ]

\* gen_operating_expenses(core): Section 3: Operating Expenses (~40 fields).  s is the state of the random
\* source at the call; the function makes 32 draws.
gen_operating_expenses(s, core) ==
    LET sqft == core["_sqft"]
    IN  [
          opex_cap_pct |-> rand_pct(300, 700, Raw(s, 1)),
          opex_cap_type |-> choice(<<"Cumulative compounding", "Non-cumulative annual", "None">>, Raw(s, 2)),
          opex_base_year_amount |-> MulRound2(sqft, rand_dollar(250, 450, Raw(s, 3))),
          opex_reconciliation_deadline_months |-> choice(<<3, 4, 6>>, Raw(s, 4)),
          opex_reconciliation_method |-> choice(<<"Actual costs", "Estimated with true-up">>, Raw(s, 5)),
          opex_audit_right |-> "Yes",
          opex_audit_frequency |-> choice(<<"Once per year", "Once per reconciliation period">>, Raw(s, 6)),
          opex_audit_notice_days |-> choice(<<30, 60, 90>>, Raw(s, 7)),
          opex_audit_period_years |-> choice(<<2, 3>>, Raw(s, 8)),
          opex_audit_cost_responsibility |-> choice(<<"Tenant bears cost unless overcharge exceeds 5%", "Landlord bears cost if overcharge exceeds 3%">>, Raw(s, 9)),
          opex_dispute_resolution |-> choice(<<"Binding arbitration", "Mediation then litigation">>, Raw(s, 10)),
          opex_gross_up_provision |-> choice(<<"Yes, to 95% occupancy", "Yes, to 100% occupancy", "No">>, Raw(s, 11)),
          opex_gross_up_method |-> "Variable expenses adjusted as if building were 95% occupied",
          tax_protest_right |-> choice(<<"Tenant may protest, Landlord approval", "Landlord protests only">>, Raw(s, 12)),
          tax_protest_cost_sharing |-> choice(<<"50/50", "Pro rata", "Tenant bears all costs">>, Raw(s, 13)),
          tax_abatement_sharing |-> choice(<<"Pro rata benefit to Tenant", "Landlord retains">>, Raw(s, 14)),
          controllable_expense_cap_pct |-> rand_pct(300, 500, Raw(s, 15)),
          uncontrollable_expenses_list |-> "Real estate taxes, insurance premiums, utilities, snow removal",
          utility_responsibility |-> choice(<<"Tenant direct-metered", "Landlord submetered", "Included in CAM">>, Raw(s, 16)),
          utility_types_covered |-> "Electric, gas, water, sewer, telecom",
          hvac_maintenance_responsibility |-> choice(<<"Tenant", "Landlord", "Shared">>, Raw(s, 17)),
          hvac_contract_requirement |-> choice(<<"Required, vendor approved by Landlord", "Recommended">>, Raw(s, 18)),
          snow_removal_responsibility |-> choice(<<"Landlord via CAM", "Tenant direct">>, Raw(s, 19)),
          landscaping_responsibility |-> choice(<<"Landlord via CAM", "Tenant direct">>, Raw(s, 20)),
          janitorial_responsibility |-> "Tenant",
          pest_control_responsibility |-> choice(<<"Tenant", "Landlord via CAM">>, Raw(s, 21)),
          trash_removal_responsibility |-> choice(<<"Tenant direct", "Landlord via CAM">>, Raw(s, 22)),
          recycling_requirements |-> choice(<<"Mandatory per local ordinance", "Voluntary">>, Raw(s, 23)),
          parking_lot_maintenance |-> choice(<<"Landlord via CAM", "Tenant direct">>, Raw(s, 24)),
          roof_maintenance_responsibility |-> choice(<<"Landlord", "Tenant for penetrations only">>, Raw(s, 25)),
          capital_expenditure_treatment |-> choice(<<"Amortized over useful life, pro rata to Tenant", "Excluded from operating expenses">>, Raw(s, 26)),
          capital_expenditure_threshold |-> <<"$", choice(<<5000, 10000, 25000>>, Raw(s, 27))>>,
          reserve_fund_contribution_psf |-> rand_dollar(10, 50, Raw(s, 28)),
          insurance_requirements_for_cam |-> "Landlord maintains property policy; cost passed through",
          property_management_company |-> choice(<<"Acme Property Management LLC", "Industrial Realty Management Corp.">>, Raw(s, 29)),
          property_management_fee_pct |-> rand_pct(200, 500, Raw(s, 30)),
          administrative_overhead_pct |-> rand_pct(300, 1000, Raw(s, 31)),
          expense_exclusions |-> "Leasing commissions, capital improvements not benefiting Tenant, Landlord legal fees",
          tenant_proportionate_share_pct |-> Round2Uniform(3000, 10000, Raw(s, 32)),
          common_area_definition |-> "All areas outside the Premises used in common by tenants and their invitees"
        ]

\* C29 mutant: the termination option takes effect in month 60, 72 or 84.
gen_options_LateTermination(s, core) ==
    LET term_months == core["lease_term_months"]
    IN  [
          renewal_option_count |-> choice(<<1, 2, 3>>, Raw(s, 1)),
          renewal_option_term_months |-> choice(<<36, 60, 84>>, Raw(s, 2)),
          renewal_notice_months |-> choice(<<6, 9, 12>>, Raw(s, 3)),
          renewal_rent_method |-> choice(<<"Fair Market Value", "95% of Fair Market Value", "Fixed escalation from last year rent", "CPI adjustment">>, Raw(s, 4)),
          renewal_fmv_determination |-> choice(<<"Mutual agreement, then broker determination", "Three-broker average", "Baseball arbitration">>, Raw(s, 5)),
          renewal_fmv_dispute_resolution |-> "Each party selects broker; brokers select third; middle value prevails",
          renewal_ti_allowance |-> choice(<<"None", "$5.00 PSF", "$10.00 PSF">>, Raw(s, 6)),
          renewal_conditions |-> "No uncured default at time of exercise",
          expansion_option |-> choice(<<"Yes", "No">>, Raw(s, 7)),
          expansion_space_sqft |-> randint(20000, 100000, Raw(s, 8)),
          expansion_notice_months |-> choice(<<6, 9, 12>>, Raw(s, 9)),
          expansion_rent_rate |-> choice(<<"Same terms as Premises", "Fair Market Value">>, Raw(s, 10)),
          expansion_deadline_month |-> choice(<<24, 36, 48>>, Raw(s, 11)),
          expansion_ti_allowance |-> choice(<<"Pro rata of original TI", "None", "$10.00 PSF">>, Raw(s, 12)),
          rofo_right |-> choice(<<"Yes", "No">>, Raw(s, 13)),
          rofo_space_description |-> "Any contiguous space in the building or adjacent buildings",
          rofo_notice_days |-> choice(<<10, 15, 30>>, Raw(s, 14)),
          rofo_response_days |-> choice(<<10, 15, 20>>, Raw(s, 15)),
          rofo_matching_terms |-> choice(<<"Match third-party terms", "95% of third-party terms">>, Raw(s, 16)),
          rofr_right |-> choice(<<"Yes", "No">>, Raw(s, 17)),
          rofr_space_description |-> "Building and adjacent parcels",
          rofr_notice_days |-> choice(<<10, 15, 30>>, Raw(s, 18)),
          purchase_option |-> choice(<<"Yes", "No">>, Raw(s, 19)),
          purchase_option_price_method |-> choice(<<"Fair Market Value at time of exercise", "Fixed price of $X per square foot", "Formula-based: NOI / cap rate">>, Raw(s, 20)),
          purchase_option_exercise_window |-> <<"Month ", choice(<<36, 48, 60>>, Raw(s, 21)), " through Month ", choice(<<72, 84, 96>>, Raw(s, 22))>>,
          purchase_option_due_diligence_days |-> choice(<<30, 45, 60>>, Raw(s, 23)),
          purchase_option_closing_days |-> choice(<<60, 90, 120>>, Raw(s, 24)),
          termination_option |-> choice(<<"Yes", "No">>, Raw(s, 25)),
          termination_option_effective_month |-> choice(<<60, 72, 84>>, Raw(s, 26)),
          termination_notice_months |-> choice(<<6, 9, 12>>, Raw(s, 27)),
          termination_fee_months_rent |-> choice(<<3, 6, 9, 12>>, Raw(s, 28)),
          termination_fee_includes_unamortized_ti |-> choice(<<"Yes", "No">>, Raw(s, 29)),
          termination_fee_includes_commission |-> choice(<<"Yes", "No">>, Raw(s, 30)),
          contraction_option |-> choice(<<"Yes", "No">>, Raw(s, 31)),
          contraction_min_sqft_retained |-> randint(30000, 80000, Raw(s, 32)),
          contraction_notice_months |-> choice(<<9, 12>>, Raw(s, 33)),
          contraction_fee_type |-> choice(<<"Unamortized TI + commissions", "Fixed fee per sqft released">>, Raw(s, 34)),
          relocation_right_landlord |-> choice(<<"Yes, with 90 days notice", "No">>, Raw(s, 35)),
          relocation_comparable_space |-> "Comparable size, location, and condition within Landlord portfolio",
          relocation_cost_responsibility |-> "Landlord bears all relocation costs",
          must_take_space |-> choice(<<"Yes", "No">>, Raw(s, 36)),
          must_take_space_sqft |-> randint(10000, 50000, Raw(s, 37)),
          must_take_deadline_month |-> choice(<<12, 24, 36>>, Raw(s, 38)),
          must_take_rent_rate |-> "Same terms as initial Premises",
          sublease_consent_required |-> choice(<<"Yes, not unreasonably withheld", "No, freely assignable">>, Raw(s, 39)),
          sublease_profit_sharing_pct |-> rand_pct(0, 5000, Raw(s, 40))
        ]

\* gen_options(core): Section 4: Options (~45 fields).  s is the state of the random
\* source at the call; the function makes 40 draws.
gen_options(s, core) ==
    LET term_months == core["lease_term_months"]
    IN  [
          renewal_option_count |-> choice(<<1, 2, 3>>, Raw(s, 1)),
          renewal_option_term_months |-> choice(<<36, 60, 84>>, Raw(s, 2)),
          renewal_notice_months |-> choice(<<6, 9, 12>>, Raw(s, 3)),
          renewal_rent_method |-> choice(<<"Fair Market Value", "95% of Fair Market Value", "Fixed escalation from last year rent", "CPI adjustment">>, Raw(s, 4)),
          renewal_fmv_determination |-> choice(<<"Mutual agreement, then broker determination", "Three-broker average", "Baseball arbitration">>, Raw(s, 5)),
          renewal_fmv_dispute_resolution |-> "Each party selects broker; brokers select third; middle value prevails",
          renewal_ti_allowance |-> choice(<<"None", "$5.00 PSF", "$10.00 PSF">>, Raw(s, 6)),
          renewal_conditions |-> "No uncured default at time of exercise",
          expansion_option |-> choice(<<"Yes", "No">>, Raw(s, 7)),
          expansion_space_sqft |-> randint(20000, 100000, Raw(s, 8)),
          expansion_notice_months |-> choice(<<6, 9, 12>>, Raw(s, 9)),
          expansion_rent_rate |-> choice(<<"Same terms as Premises", "Fair Market Value">>, Raw(s, 10)),
          expansion_deadline_month |-> choice(<<24, 36, 48>>, Raw(s, 11)),
          expansion_ti_allowance |-> choice(<<"Pro rata of original TI", "None", "$10.00 PSF">>, Raw(s, 12)),
          rofo_right |-> choice(<<"Yes", "No">>, Raw(s, 13)),
          rofo_space_description |-> "Any contiguous space in the building or adjacent buildings",
          rofo_notice_days |-> choice(<<10, 15, 30>>, Raw(s, 14)),
          rofo_response_days |-> choice(<<10, 15, 20>>, Raw(s, 15)),
          rofo_matching_terms |-> choice(<<"Match third-party terms", "95% of third-party terms">>, Raw(s, 16)),
          rofr_right |-> choice(<<"Yes", "No">>, Raw(s, 17)),
          rofr_space_description |-> "Building and adjacent parcels",
          rofr_notice_days |-> choice(<<10, 15, 30>>, Raw(s, 18)),
          purchase_option |-> choice(<<"Yes", "No">>, Raw(s, 19)),
          purchase_option_price_method |-> choice(<<"Fair Market Value at time of exercise", "Fixed price of $X per square foot", "Formula-based: NOI / cap rate">>, Raw(s, 20)),
          purchase_option_exercise_window |-> <<"Month ", choice(<<36, 48, 60>>, Raw(s, 21)), " through Month ", choice(<<72, 84, 96>>, Raw(s, 22))>>,
          purchase_option_due_diligence_days |-> choice(<<30, 45, 60>>, Raw(s, 23)),
          purchase_option_closing_days |-> choice(<<60, 90, 120>>, Raw(s, 24)),
          termination_option |-> choice(<<"Yes", "No">>, Raw(s, 25)),
          termination_option_effective_month |-> choice(<<36, 48, 60>>, Raw(s, 26)),
          termination_notice_months |-> choice(<<6, 9, 12>>, Raw(s, 27)),
          termination_fee_months_rent |-> choice(<<3, 6, 9, 12>>, Raw(s, 28)),
          termination_fee_includes_unamortized_ti |-> choice(<<"Yes", "No">>, Raw(s, 29)),
          termination_fee_includes_commission |-> choice(<<"Yes", "No">>, Raw(s, 30)),
          contraction_option |-> choice(<<"Yes", "No">>, Raw(s, 31)),
          contraction_min_sqft_retained |-> randint(30000, 80000, Raw(s, 32)),
          contraction_notice_months |-> choice(<<9, 12>>, Raw(s, 33)),
          contraction_fee_type |-> choice(<<"Unamortized TI + commissions", "Fixed fee per sqft released">>, Raw(s, 34)),
          relocation_right_landlord |-> choice(<<"Yes, with 90 days notice", "No">>, Raw(s, 35)),
          relocation_comparable_space |-> "Comparable size, location, and condition within Landlord portfolio",
          relocation_cost_responsibility |-> "Landlord bears all relocation costs",
          must_take_space |-> choice(<<"Yes", "No">>, Raw(s, 36)),
          must_take_space_sqft |-> randint(10000, 50000, Raw(s, 37)),
          must_take_deadline_month |-> choice(<<12, 24, 36>>, Raw(s, 38)),
          must_take_rent_rate |-> "Same terms as initial Premises",
          sublease_consent_required |-> choice(<<"Yes, not unreasonably withheld", "No, freely assignable">>, Raw(s, 39)),
          sublease_profit_sharing_pct |-> rand_pct(0, 5000, Raw(s, 40))
        ]

\* gen_insurance_liability(): Section 5: Insurance & Liability (~40 fields).  s is the state of the random
\* source at the call; the function makes 26 draws.
gen_insurance_liability(s) ==
    LET carrier == choice(INSURANCE_CARRIERS, Raw(s, 1))
    IN  [
          gl_coverage_per_occurrence |-> <<"$", choice(<<1000000, 2000000, 5000000>>, Raw(s, 2))>>,
          gl_coverage_aggregate |-> <<"$", choice(<<2000000, 5000000, 10000000>>, Raw(s, 3))>>,
          gl_deductible_max |-> <<"$", choice(<<5000, 10000, 25000>>, Raw(s, 4))>>,
          property_insurance_coverage |-> choice(<<"Replacement cost", "Actual cash value">>, Raw(s, 5)),
          property_insurance_includes_ti |-> "Yes",
          property_insurance_business_personal_property |-> "Full replacement cost",
          umbrella_excess_liability |-> <<"$", choice(<<5000000, 10000000, 25000000>>, Raw(s, 6))>>,
          workers_comp_coverage |-> "Statutory limits",
          auto_liability_coverage |-> <<"$", choice(<<1000000, 2000000>>, Raw(s, 7))>>,
          business_interruption_coverage_months |-> choice(<<6, 12, 18>>, Raw(s, 8)),
          professional_liability_required |-> choice(<<"Yes", "No">>, Raw(s, 9)),
          environmental_liability_coverage |-> <<"$", choice(<<1000000, 5000000>>, Raw(s, 10))>>,
          tenant_insurance_carrier_rating |-> "A.M. Best A- VII or better",
          landlord_additional_insured |-> "Yes",
          landlord_lender_additional_insured |-> "Yes, as required by Landlord",
          insurance_certificate_delivery_days |-> choice(<<10, 15, 30>>, Raw(s, 11)),
          insurance_renewal_notice_days |-> choice(<<15, 30>>, Raw(s, 12)),
          waiver_of_subrogation |-> "Mutual",
          waiver_of_subrogation_scope |-> "All property and casualty claims",
          indemnification_by_tenant |-> "Tenant indemnifies Landlord for claims arising from Tenant use or occupancy",
          indemnification_by_landlord |-> "Landlord indemnifies Tenant for claims arising from Landlord negligence",
          indemnification_survival_months |-> choice(<<12, 24, 36>>, Raw(s, 13)),
          indemnification_cap |-> choice(<<"None", "Limited to insurance proceeds", "$5,000,000">>, Raw(s, 14)),
          mutual_waiver_of_consequential_damages |-> choice(<<"Yes", "No">>, Raw(s, 15)),
          landlord_liability_cap |-> choice(<<"Landlord equity in property", "Insurance proceeds only", "None">>, Raw(s, 16)),
          tenant_liability_cap |-> choice(<<"None", "Two years base rent">>, Raw(s, 17)),
          hold_harmless_scope |-> "Each party for its own acts, omissions, and negligence",
          insurance_increase_due_to_tenant_use |-> "Tenant reimburses premium increase",
          landlord_property_insurance_type |-> "All-risk, replacement cost, including terrorism",
          landlord_property_insurance_deductible |-> <<"$", choice(<<25000, 50000, 100000>>, Raw(s, 18))>>,
          earthquake_insurance |-> choice(<<"Included", "Excluded", "Optional at Tenant cost">>, Raw(s, 19)),
          flood_insurance |-> choice(<<"Included", "Excluded -- not in flood zone", "Required per FEMA">>, Raw(s, 20)),
          terrorism_insurance |-> "Included per TRIA",
          cyber_liability_required |-> choice(<<"Yes, $1,000,000 minimum", "No">>, Raw(s, 21)),
          pollution_legal_liability |-> choice(<<"Required", "Not required">>, Raw(s, 22)),
          builders_risk_during_ti |-> choice(<<"Tenant provides", "Landlord provides">>, Raw(s, 23)),
          blanket_policy_acceptable |-> "Yes, with dedicated limits per location",
          self_insurance_permitted |-> choice(<<"Yes, if net worth exceeds $500M", "No, third-party coverage required">>, Raw(s, 24)),
          insurance_review_frequency |-> choice(<<"Annually", "Every 3 years">>, Raw(s, 25)),
          insurance_adjustment_for_inflation |-> choice(<<"Yes, CPI-based", "At Landlord discretion">>, Raw(s, 26))
        ]

\* gen_construction_alterations(core): Section 6: Construction & Alterations (~35 fields).  s is the state of the random
\* source at the call; the function makes 26 draws.
gen_construction_alterations(s, core) ==
    LET sqft == core["_sqft"]
    IN  [
          initial_buildout_responsibility |-> choice(<<"Tenant", "Landlord per approved plans">>, Raw(s, 1)),
          initial_buildout_deadline_days |-> choice(<<180, 240, 365>>, Raw(s, 2)),
          buildout_plan_approval_days |-> choice(<<15, 20, 30>>, Raw(s, 3)),
          buildout_plan_resubmission_days |-> choice(<<10, 15>>, Raw(s, 4)),
          construction_manager |-> choice(<<"Tenant-selected, Landlord-approved", "Landlord-designated">>, Raw(s, 5)),
          construction_oversight_fee_pct |-> rand_pct(200, 500, Raw(s, 6)),
          prevailing_wage_required |-> choice(<<"Yes", "No", "Per local ordinance">>, Raw(s, 7)),
          construction_insurance_requirements |-> "Builders risk + contractor GL per lease requirements",
          construction_lien_waiver_required |-> "Yes, conditional and unconditional",
          construction_completion_guarantee |-> choice(<<"Performance bond", "Letter of credit", "None">>, Raw(s, 8)),
          alterations_threshold_no_approval |-> <<"$", choice(<<10000, 25000, 50000>>, Raw(s, 9))>>,
          alterations_structural_consent |-> "Required for any structural modifications",
          alterations_cosmetic_consent |-> choice(<<"Not required", "Notice to Landlord only">>, Raw(s, 10)),
          alterations_removal_at_expiration |-> choice(<<"Landlord may require removal", "All alterations become Landlord property">>, Raw(s, 11)),
          alterations_restoration_obligation |-> choice(<<"Yes, to shell condition", "Negotiated at lease end">>, Raw(s, 12)),
          restoration_deposit_required |-> choice(<<"Yes", "No">>, Raw(s, 13)),
          restoration_cost_estimate |-> <<"$", MulRound2(sqft, rand_dollar(100, 300, Raw(s, 14)))>>,
          signage_right |-> choice(<<"Building-mounted and monument", "Monument only", "Suite entry only">>, Raw(s, 15)),
          signage_size_max_sqft |-> choice(<<50, 100, 200>>, Raw(s, 16)),
          signage_approval_required |-> "Yes, design and placement subject to Landlord approval",
          signage_cost_responsibility |-> "Tenant",
          signage_removal_at_expiration |-> "Tenant removes and restores",
          telecom_riser_access |-> choice(<<"Dedicated riser", "Shared riser">>, Raw(s, 17)),
          telecom_provider_choice |-> "Tenant selects, Landlord approval not unreasonably withheld",
          telecom_equipment_rooftop |-> choice(<<"Permitted with license", "Not permitted">>, Raw(s, 18)),
          rooftop_license_fee_monthly |-> <<"$", choice(<<500, 1000, 1500>>, Raw(s, 19))>>,
          generator_permitted |-> choice(<<"Yes, pad-mounted", "No">>, Raw(s, 20)),
          generator_fuel_type |-> choice(<<"Diesel", "Natural gas">>, Raw(s, 21)),
          generator_noise_restrictions |-> "Must comply with local noise ordinance",
          solar_panel_permitted |-> choice(<<"Yes, with Landlord approval", "No">>, Raw(s, 22)),
          ev_charging_stations_permitted |-> choice(<<"Yes", "No">>, Raw(s, 23)),
          racking_system_approval |-> choice(<<"Required for systems over 20 feet", "Not required">>, Raw(s, 24)),
          floor_load_capacity_psf |-> choice(<<250, 300, 500>>, Raw(s, 25)),
          mezzanine_permitted |-> choice(<<"Yes, with structural review", "No">>, Raw(s, 26)),
          hazmat_storage_modifications |-> "Subject to Environmental section requirements"
        ]

\* gen_default_remedies(): Section 7: Default & Remedies (~40 fields).  s is the state of the random
\* source at the call; the function makes 32 draws.
gen_default_remedies(s) ==
    [
      monetary_default_cure_days |-> choice(<<5, 7, 10>>, Raw(s, 1)),
      non_monetary_default_cure_days |-> choice(<<30, 45, 60>>, Raw(s, 2)),
      non_monetary_extended_cure |-> choice(<<"Additional 30 days if diligently pursuing cure", "Up to 90 days total with Landlord approval">>, Raw(s, 3)),
      notice_of_default_method |-> "Certified mail, return receipt requested, and email",
      notice_of_default_address_tenant |-> "Premises address and corporate headquarters",
      notice_of_default_address_landlord |-> "Acme Industrial Real Estate, LLC, 100 Corporate Center Dr, Suite 400, Wilmington, DE 19801",
      late_fee_percentage |-> rand_pct(300, 500, Raw(s, 4)),
      late_fee_grace_period_days |-> choice(<<5, 7, 10>>, Raw(s, 5)),
      interest_on_past_due_rate |-> rand_pct(800, 1800, Raw(s, 6)),
      interest_calculation_method |-> choice(<<"Simple interest", "Compounding monthly">>, Raw(s, 7)),
      landlord_lien_on_property |-> choice(<<"Yes, contractual lien", "Waived">>, Raw(s, 8)),
      landlord_lockout_right |-> choice(<<"Yes, after default and cure period", "No">>, Raw(s, 9)),
      landlord_self_help_right |-> "Yes, for emergency repairs with reasonable notice",
      cross_default_provision |-> choice(<<"Yes, with all Landlord affiliates", "No">>, Raw(s, 10)),
      cross_default_cure_period_days |-> choice(<<10, 15, 30>>, Raw(s, 11)),
      acceleration_of_rent |-> choice(<<"Landlord may accelerate all remaining rent upon uncured default", "Limited to 12 months rent">>, Raw(s, 12)),
      mitigation_of_damages |-> "Landlord shall use commercially reasonable efforts to mitigate",
      consequential_damages_waiver |-> choice(<<"Mutual waiver", "No waiver">>, Raw(s, 13)),
      attorneys_fees_prevailing_party |-> "Yes",
      attorneys_fees_cap |-> choice(<<"None", "$50,000", "$100,000">>, Raw(s, 14)),
      guarantor_name |-> choice(GUARANTOR_NAMES, Raw(s, 15)),
      guarantor_relationship |-> choice(<<"CEO", "Principal Owner", "President">>, Raw(s, 16)),
      guarantee_type |-> choice(<<"Full recourse", "Limited - declining over time", "Good-guy guarantee">>, Raw(s, 17)),
      guarantee_amount_cap |-> choice(<<"Unlimited", "24 months rent", "12 months rent + TI">>, Raw(s, 18)),
      guarantee_burndown_schedule |-> choice(<<"Reduces 25% per year", "Reduces upon meeting revenue thresholds", "No burndown">>, Raw(s, 19)),
      guarantee_financial_reporting |-> choice(<<"Annual personal financial statement", "Quarterly">>, Raw(s, 20)),
      bankruptcy_provision |-> "Default upon voluntary filing; involuntary filing cured within 60 days",
      bankruptcy_adequate_assurance_days |-> choice(<<30, 60>>, Raw(s, 21)),
      right_to_cure_by_lender |-> choice(<<"Yes, additional 30 days", "No">>, Raw(s, 22)),
      right_to_cure_by_guarantor |-> choice(<<"Yes, additional 15 days", "No">>, Raw(s, 23)),
      surrender_condition |-> choice(<<"Broom clean, good condition", "Shell condition">>, Raw(s, 24)),
      surrender_inspection_days_before |-> choice(<<30, 60, 90>>, Raw(s, 25)),
      holdover_provision |-> "Month-to-month at holdover rent multiplier",
      holdover_notice_to_vacate_days |-> choice(<<30, 60>>, Raw(s, 26)),
      landlord_default_notice_days |-> choice(<<30, 45, 60>>, Raw(s, 27)),
      landlord_default_cure_days |-> choice(<<30, 60, 90>>, Raw(s, 28)),
      rent_abatement_for_landlord_default |-> choice(<<"Yes, after notice and cure", "No">>, Raw(s, 29)),
      tenant_offset_right |-> choice(<<"Yes, for uncured Landlord defaults", "No">>, Raw(s, 30)),
      force_majeure_rent_abatement |-> choice(<<"Yes", "No">>, Raw(s, 31)),
      dispute_resolution_method |-> choice(<<"Binding arbitration", "Litigation", "Mediation then arbitration">>, Raw(s, 32))
    ]

\* gen_environmental_compliance(): Section 8: Environmental & Compliance (~35 fields).  s is the state of the random
\* source at the call; the function makes 22 draws.
gen_environmental_compliance(s, today) ==
    [
      hazmat_permitted |-> choice(<<"Limited to ordinary business quantities", "Prohibited", "With Landlord approval">>, Raw(s, 1)),
      hazmat_types_permitted |-> "Cleaning supplies, forklift fuel, office chemicals in de minimis quantities",
      hazmat_storage_requirements |-> "Secondary containment, MSDS on-site, compliant with RCRA",
      hazmat_reporting_frequency |-> choice(<<"Quarterly", "Annually", "Upon change">>, Raw(s, 2)),
      hazmat_removal_at_expiration |-> "Tenant shall remove all hazardous materials and certify removal",
      phase_i_esa_baseline |-> choice(<<"Completed by Landlord, shared with Tenant", "Tenant may conduct at own cost">>, Raw(s, 3)),
      phase_i_esa_date |-> strftime(rand_date_future(today, -365, -30, Raw(s, 4))),
      phase_ii_esa_required |-> choice(<<"If Phase I recommends", "Not required">>, Raw(s, 5)),
      environmental_indemnification_by_tenant |-> "For contamination caused by Tenant during lease term",
      environmental_indemnification_by_landlord |-> "For pre-existing contamination",
      environmental_indemnification_survival_years |-> choice(<<3, 5, 10>>, Raw(s, 6)),
      environmental_remediation_responsibility |-> choice(<<"Landlord for pre-existing, Tenant for Tenant-caused", "Tenant for all during lease term">>, Raw(s, 7)),
      environmental_remediation_standard |-> choice(<<"Industrial use standard", "Residential use standard (higher)">>, Raw(s, 8)),
      environmental_insurance_required |-> choice(<<"Yes", "No">>, Raw(s, 9)),
      asbestos_survey_completed |-> choice(<<"Yes, no ACM found", "Yes, ACM managed in place", "Not applicable">>, Raw(s, 10)),
      lead_paint_disclosure |-> choice(<<"Not applicable -- built after 1978", "Disclosure provided">>, Raw(s, 11)),
      mold_prevention_responsibility |-> "Tenant shall maintain HVAC and report water intrusion within 24 hours",
      indoor_air_quality_standards |-> choice(<<"ASHRAE 62.1 compliance", "Not specified">>, Raw(s, 12)),
      stormwater_management_compliance |-> "Tenant shall comply with NPDES permit requirements",
      spcc_plan_required |-> choice(<<"Yes, if oil storage exceeds 1,320 gallons", "Not applicable">>, Raw(s, 13)),
      ada_compliance_responsibility |-> choice(<<"Landlord for base building, Tenant for Premises", "Tenant for all within Premises">>, Raw(s, 14)),
      ada_compliance_cost_sharing |-> choice(<<"Tenant 100%", "Shared pro rata">>, Raw(s, 15)),
      fire_code_compliance |-> "Tenant shall maintain fire suppression and comply with NFPA standards",
      fire_sprinkler_system |-> choice(<<"ESFR", "In-rack required", "Wet system adequate">>, Raw(s, 16)),
      fire_alarm_monitoring |-> "Required, Tenant-contracted with approved monitoring company",
      zoning_compliance_warranty_landlord |-> "Landlord warrants current zoning permits industrial use",
      zoning_current_classification |-> choice(<<"I-1 Light Industrial", "I-2 Heavy Industrial", "M-1 Manufacturing">>, Raw(s, 17)),
      zoning_special_use_permit |-> choice(<<"Not required", "Required for cold storage", "Required for hazmat">>, Raw(s, 18)),
      building_code_compliance |-> "Tenant improvements shall comply with current building code",
      energy_code_compliance |-> choice(<<"ASHRAE 90.1", "Local energy code", "LEED Silver equivalent">>, Raw(s, 19)),
      sustainability_requirements |-> choice(<<"LED lighting, recycling program required", "None specified", "LEED certification maintenance required">>, Raw(s, 20)),
      noise_restrictions |-> "Comply with local noise ordinance; no outdoor operations 10PM-6AM",
      operating_hours_restrictions |-> choice(<<"24/7 permitted", "6AM-10PM only", "No restrictions">>, Raw(s, 21)),
      truck_traffic_restrictions |-> choice(<<"Designated routes only", "No restrictions", "Peak hours restricted 7-9AM, 4-6PM">>, Raw(s, 22)),
      odor_emission_restrictions |-> "No odors detectable beyond property line"
    ]

\* gen_miscellaneous(core): Section 9: Miscellaneous (~36 fields).  s is the state of the random
\* source at the call; the function makes 21 draws.
gen_miscellaneous(s, core) ==
    LET law_firm == choice(LAW_FIRMS, Raw(s, 1))
    IN  [
          governing_law_state |-> core["property_state"],
          jurisdiction_venue |-> <<core["property_county"], " County, ", core["property_state"]>>,
          force_majeure_definition |-> "Acts of God, war, terrorism, pandemic, government orders, labor strikes, supply chain disruption",
          force_majeure_max_days |-> choice(<<180, 270, 365>>, Raw(s, 2)),
          force_majeure_rent_obligation |-> choice(<<"Continues", "Abated after 30 days">>, Raw(s, 3)),
          subordination_required |-> "Yes, to existing and future mortgages",
          subordination_non_disturbance |-> "Landlord shall deliver SNDA from lender within 30 days of lease execution",
          snda_form |-> choice(<<"Lender standard form", "Negotiated form">>, Raw(s, 4)),
          attornment_obligation |-> "Tenant shall attorn to any successor landlord",
          estoppel_certificate_delivery_days |-> choice(<<10, 15, 20>>, Raw(s, 5)),
          estoppel_certificate_frequency |-> choice(<<"Upon request", "Maximum twice annually">>, Raw(s, 6)),
          estoppel_certificate_content |-> "Lease terms, rent, defaults, commencement date, expiration date",
          recording_of_lease |-> choice(<<"Memorandum of lease to be recorded", "Not recorded">>, Raw(s, 7)),
          recording_cost_responsibility |-> choice(<<"Tenant", "Landlord", "Shared equally">>, Raw(s, 8)),
          broker_landlord |-> choice(<<"CBRE", "JLL", "Cushman & Wakefield", "Colliers", "Newmark">>, Raw(s, 9)),
          broker_tenant |-> choice(<<"Prologis Advisory", "Lee & Associates", "NAI Global", "Marcus & Millichap">>, Raw(s, 10)),
          broker_commission_responsibility |-> "Landlord per separate agreement",
          broker_commission_on_renewal |-> choice(<<"Yes, reduced rate", "No">>, Raw(s, 11)),
          quiet_enjoyment_covenant |-> "Landlord covenants Tenant shall peacefully hold and enjoy the Premises",
          access_by_landlord |-> "Reasonable prior notice (24 hours), except emergencies",
          landlord_access_hours |-> choice(<<"Business hours only", "Any reasonable time with notice">>, Raw(s, 12)),
          signage_on_building_directory |-> choice(<<"Included", "Not applicable">>, Raw(s, 13)),
          parking_allocation |-> <<core["auto_parking_spaces"], " auto spaces, ", core["trailer_parking_spaces"], " trailer spaces">>,
          confidentiality_of_lease_terms |-> choice(<<"Mutual confidentiality", "Not confidential">>, Raw(s, 14)),
          entire_agreement_clause |-> "This Lease constitutes the entire agreement; supersedes all prior negotiations",
          amendment_requirements |-> "Written instrument signed by both parties",
          severability_clause |-> "Standard -- invalid provisions severed without affecting remainder",
          waiver_of_jury_trial |-> choice(<<"Mutual waiver", "No waiver">>, Raw(s, 15)),
          notices_delivery_method |-> "Certified mail, nationally recognized overnight courier, and email",
          notices_deemed_received |-> choice(<<"3 business days after mailing", "Next business day for overnight courier">>, Raw(s, 16)),
          assignment_consent_required |-> choice(<<"Yes, not unreasonably withheld", "Freely assignable">>, Raw(s, 17)),
          assignment_release_of_assignor |-> choice(<<"Yes, upon Landlord approval", "No, assignor remains liable">>, Raw(s, 18)),
          transfer_fee |-> choice(<<"None", "$5,000 administrative fee">>, Raw(s, 19)),
          tenant_financial_reporting |-> choice(<<"Annual audited statements", "Quarterly unaudited">>, Raw(s, 20)),
          landlord_lender_name |-> choice(<<"JPMorgan Chase", "Wells Fargo", "Bank of America", "Goldman Sachs">>, Raw(s, 21)),
          exhibit_list |-> "A (Floor Plan), B (Work Letter), C (Rules & Regulations), D (SNDA Form), E (Guaranty)"
        ]

\* The fields build_lease_pdf looks up in every document: each d['...'] of its
\* paragraphs outside the rent-abatement paragraph, and the test of 4.3.
UnconditionalRefs ==
    {"lease_id", "execution_date", "lease_execution_city", "landlord_name",
     "landlord_state", "landlord_entity_type", "landlord_address",
     "tenant_name", "tenant_state", "tenant_entity_type",
     "tenant_business_type", "tenant_address", "property_address",
     "property_city", "property_county", "property_state", "property_zip",
     "market", "tax_parcel_id", "building_year_built",
     "total_rentable_sqft", "warehouse_sqft", "office_sqft", "land_acres",
     "clear_height_ft", "dock_doors", "drive_in_doors",
     "trailer_parking_spaces", "auto_parking_spaces", "lease_term_months",
     "lease_start_date", "lease_end_date", "rent_commencement_date",
     "annual_base_rent", "monthly_base_rent", "base_rent_psf",
     "rent_payment_day", "rent_payment_method", "rent_escalation_pct",
     "rent_escalation_type", "yr1_annual_rent", "yr2_annual_rent",
     "yr3_annual_rent", "yr4_annual_rent", "yr5_annual_rent",
     "free_rent_months", "security_deposit_amount",
     "security_deposit_months", "security_deposit_form",
     "security_deposit_interest", "security_deposit_return_days",
     "letter_of_credit_amount", "letter_of_credit_issuer_rating",
     "letter_of_credit_expiry_months", "letter_of_credit_burndown",
     "letter_of_credit_draw_conditions", "ti_allowance_psf",
     "ti_allowance_total", "ti_deadline_months", "ti_approval_required",
     "ti_general_contractor", "ti_change_order_cap_pct",
     "ti_unused_treatment", "lease_type", "cam_psf_estimate",
     "cam_annual_estimate", "tax_psf_estimate", "tax_annual_estimate",
     "insurance_psf_estimate", "insurance_annual_estimate", "mgmt_fee_pct",
     "base_year", "proration_method", "late_payment_grace_days",
     "late_payment_fee_pct", "interest_on_late_payment_pct",
     "holdover_rent_multiplier", "holdover_rent_type", "opex_cap_pct",
     "opex_cap_type", "opex_base_year_amount",
     "controllable_expense_cap_pct", "uncontrollable_expenses_list",
     "opex_reconciliation_deadline_months", "opex_reconciliation_method",
     "tenant_proportionate_share_pct", "common_area_definition",
     "opex_gross_up_provision", "opex_gross_up_method", "opex_audit_right",
     "opex_audit_frequency", "opex_audit_notice_days",
     "opex_audit_period_years", "opex_audit_cost_responsibility",
     "opex_dispute_resolution", "tax_protest_right",
     "tax_protest_cost_sharing", "tax_abatement_sharing",
     "utility_responsibility", "utility_types_covered",
     "hvac_maintenance_responsibility", "hvac_contract_requirement",
     "snow_removal_responsibility", "landscaping_responsibility",
     "janitorial_responsibility", "pest_control_responsibility",
     "trash_removal_responsibility", "recycling_requirements",
     "parking_lot_maintenance", "roof_maintenance_responsibility",
     "capital_expenditure_treatment", "capital_expenditure_threshold",
     "reserve_fund_contribution_psf", "insurance_requirements_for_cam",
     "property_management_company", "property_management_fee_pct",
     "administrative_overhead_pct", "expense_exclusions",
     "renewal_conditions", "renewal_option_count",
     "renewal_option_term_months", "renewal_notice_months",
     "renewal_rent_method", "renewal_fmv_determination",
     "renewal_fmv_dispute_resolution", "renewal_ti_allowance",
     "expansion_option", "expansion_space_sqft", "expansion_notice_months",
     "expansion_deadline_month", "expansion_rent_rate",
     "expansion_ti_allowance", "rofo_right", "rofo_space_description",
     "rofo_notice_days", "rofo_response_days", "rofo_matching_terms",
     "rofr_right", "rofr_space_description", "rofr_notice_days",
     "purchase_option", "purchase_option_price_method",
     "purchase_option_exercise_window",
     "purchase_option_due_diligence_days", "purchase_option_closing_days",
     "termination_option", "termination_option_effective_month",
     "termination_notice_months", "termination_fee_months_rent",
     "termination_fee_includes_unamortized_ti",
     "termination_fee_includes_commission", "contraction_option",
     "contraction_min_sqft_retained", "contraction_notice_months",
     "contraction_fee_type", "relocation_right_landlord",
     "relocation_comparable_space", "relocation_cost_responsibility",
     "must_take_space", "must_take_space_sqft", "must_take_deadline_month",
     "must_take_rent_rate", "sublease_consent_required",
     "sublease_profit_sharing_pct", "gl_coverage_per_occurrence",
     "gl_coverage_aggregate", "gl_deductible_max",
     "property_insurance_coverage", "property_insurance_includes_ti",
     "property_insurance_business_personal_property",
     "umbrella_excess_liability", "workers_comp_coverage",
     "auto_liability_coverage", "business_interruption_coverage_months",
     "environmental_liability_coverage", "professional_liability_required",
     "cyber_liability_required", "pollution_legal_liability",
     "builders_risk_during_ti", "tenant_insurance_carrier_rating",
     "blanket_policy_acceptable", "self_insurance_permitted",
     "landlord_additional_insured", "landlord_lender_additional_insured",
     "insurance_certificate_delivery_days", "insurance_renewal_notice_days",
     "insurance_review_frequency", "insurance_adjustment_for_inflation",
     "waiver_of_subrogation", "waiver_of_subrogation_scope",
     "indemnification_by_tenant", "indemnification_by_landlord",
     "indemnification_survival_months", "indemnification_cap",
     "mutual_waiver_of_consequential_damages", "landlord_liability_cap",
     "tenant_liability_cap", "hold_harmless_scope",
     "insurance_increase_due_to_tenant_use",
     "landlord_property_insurance_type",
     "landlord_property_insurance_deductible", "earthquake_insurance",
     "flood_insurance", "terrorism_insurance",
     "initial_buildout_responsibility", "initial_buildout_deadline_days",
     "buildout_plan_approval_days", "buildout_plan_resubmission_days",
     "construction_manager", "construction_oversight_fee_pct",
     "prevailing_wage_required", "construction_insurance_requirements",
     "construction_lien_waiver_required",
     "construction_completion_guarantee",
     "alterations_threshold_no_approval", "alterations_structural_consent",
     "alterations_cosmetic_consent", "alterations_removal_at_expiration",
     "alterations_restoration_obligation", "restoration_deposit_required",
     "restoration_cost_estimate", "signage_right", "signage_size_max_sqft",
     "signage_approval_required", "signage_cost_responsibility",
     "signage_removal_at_expiration", "telecom_riser_access",
     "telecom_provider_choice", "telecom_equipment_rooftop",
     "rooftop_license_fee_monthly", "generator_permitted",
     "generator_fuel_type", "generator_noise_restrictions",
     "solar_panel_permitted", "ev_charging_stations_permitted",
     "racking_system_approval", "floor_load_capacity_psf",
     "mezzanine_permitted", "hazmat_storage_modifications",
     "monetary_default_cure_days", "non_monetary_default_cure_days",
     "non_monetary_extended_cure", "notice_of_default_method",
     "notice_of_default_address_tenant",
     "notice_of_default_address_landlord", "late_fee_percentage",
     "late_fee_grace_period_days", "interest_on_past_due_rate",
     "interest_calculation_method", "landlord_lien_on_property",
     "landlord_lockout_right", "landlord_self_help_right",
     "cross_default_provision", "cross_default_cure_period_days",
     "acceleration_of_rent", "mitigation_of_damages",
     "consequential_damages_waiver", "attorneys_fees_prevailing_party",
     "attorneys_fees_cap", "guarantor_name", "guarantor_relationship",
     "guarantee_type", "guarantee_amount_cap",
     "guarantee_burndown_schedule", "guarantee_financial_reporting",
     "bankruptcy_provision", "bankruptcy_adequate_assurance_days",
     "right_to_cure_by_lender", "right_to_cure_by_guarantor",
     "surrender_condition", "surrender_inspection_days_before",
     "holdover_provision", "holdover_notice_to_vacate_days",
     "landlord_default_notice_days", "landlord_default_cure_days",
     "rent_abatement_for_landlord_default", "tenant_offset_right",
     "force_majeure_rent_abatement", "dispute_resolution_method",
     "hazmat_permitted", "hazmat_types_permitted",
     "hazmat_storage_requirements", "hazmat_reporting_frequency",
     "hazmat_removal_at_expiration", "phase_i_esa_date",
     "phase_i_esa_baseline", "phase_ii_esa_required",
     "environmental_indemnification_by_tenant",
     "environmental_indemnification_by_landlord",
     "environmental_indemnification_survival_years",
     "environmental_remediation_responsibility",
     "environmental_remediation_standard",
     "environmental_insurance_required", "asbestos_survey_completed",
     "lead_paint_disclosure", "mold_prevention_responsibility",
     "indoor_air_quality_standards", "stormwater_management_compliance",
     "spcc_plan_required", "ada_compliance_responsibility",
     "ada_compliance_cost_sharing", "fire_code_compliance",
     "fire_sprinkler_system", "fire_alarm_monitoring",
     "zoning_compliance_warranty_landlord", "zoning_current_classification",
     "zoning_special_use_permit", "building_code_compliance",
     "energy_code_compliance", "sustainability_requirements",
     "noise_restrictions", "operating_hours_restrictions",
     "truck_traffic_restrictions", "odor_emission_restrictions",
     "governing_law_state", "jurisdiction_venue", "waiver_of_jury_trial",
     "force_majeure_definition", "force_majeure_max_days",
     "force_majeure_rent_obligation", "subordination_required",
     "subordination_non_disturbance", "snda_form", "attornment_obligation",
     "estoppel_certificate_delivery_days", "estoppel_certificate_frequency",
     "estoppel_certificate_content", "recording_of_lease",
     "recording_cost_responsibility", "broker_landlord", "broker_tenant",
     "broker_commission_responsibility", "broker_commission_on_renewal",
     "quiet_enjoyment_covenant", "access_by_landlord",
     "landlord_access_hours", "parking_allocation",
     "signage_on_building_directory", "assignment_consent_required",
     "assignment_release_of_assignor", "transfer_fee",
     "tenant_financial_reporting", "notices_delivery_method",
     "notices_deemed_received", "confidentiality_of_lease_terms",
     "entire_agreement_clause", "amendment_requirements",
     "severability_clause", "landlord_lender_name", "exhibit_list"}

\* The fields the rent-abatement paragraph (4.3) looks up when
\* d['free_rent_months'] > 0.
AbatementRefs ==
    {"free_rent_months", "free_rent_conditions"}

\* The pool of every field that is assigned random.choice(pool), directly, through
\* a local, or inside an f-string.
DeclaredPool ==
    [
      market |-> {MARKETS[i] : i \in DOMAIN MARKETS},
      clear_height_ft |-> {32, 36, 40},
      lease_term_months |-> {60, 84, 120, 156, 180},
      rent_escalation_type |-> {"Annual Fixed Percentage", "CPI-Based", "Stepped"},
      rent_payment_day |-> {1, 5, 10, 15},
      rent_payment_method |-> {"Wire Transfer", "ACH", "Check"},
      security_deposit_form |-> {"Cash", "Letter of Credit", "Cash or Letter of Credit"},
      security_deposit_return_days |-> {30, 45, 60},
      security_deposit_interest |-> {"Yes, at money market rate", "No"},
      letter_of_credit_burndown |-> {"Yes", "No"},
      ti_unused_treatment |-> {"Rent credit", "Forfeited", "Cash payment"},
      ti_approval_required |-> {"Yes, Landlord approval for plans", "No, Tenant discretion"},
      ti_general_contractor |-> {"Tenant selection, Landlord approval", "Landlord-designated"},
      lease_type |-> {"Triple Net (NNN)", "Modified Gross", "Absolute Net"},
      base_year |-> {2024, 2025, 2026},
      proration_method |-> {"Rentable square footage", "Usable square footage"},
      late_payment_grace_days |-> {5, 7, 10},
      holdover_rent_multiplier |-> {150, 200},
      opex_cap_type |-> {"Cumulative compounding", "Non-cumulative annual", "None"},
      opex_reconciliation_deadline_months |-> {3, 4, 6},
      opex_reconciliation_method |-> {"Actual costs", "Estimated with true-up"},
      opex_audit_frequency |-> {"Once per year", "Once per reconciliation period"},
      opex_audit_notice_days |-> {30, 60, 90},
      opex_audit_period_years |-> {2, 3},
      opex_audit_cost_responsibility |-> {"Tenant bears cost unless overcharge exceeds 5%", "Landlord bears cost if overcharge exceeds 3%"},
      opex_dispute_resolution |-> {"Binding arbitration", "Mediation then litigation"},
      opex_gross_up_provision |-> {"Yes, to 95% occupancy", "Yes, to 100% occupancy", "No"},
      tax_protest_right |-> {"Tenant may protest, Landlord approval", "Landlord protests only"},
      tax_protest_cost_sharing |-> {"50/50", "Pro rata", "Tenant bears all costs"},
      tax_abatement_sharing |-> {"Pro rata benefit to Tenant", "Landlord retains"},
      utility_responsibility |-> {"Tenant direct-metered", "Landlord submetered", "Included in CAM"},
      hvac_maintenance_responsibility |-> {"Tenant", "Landlord", "Shared"},
      hvac_contract_requirement |-> {"Required, vendor approved by Landlord", "Recommended"},
      snow_removal_responsibility |-> {"Landlord via CAM", "Tenant direct"},
      landscaping_responsibility |-> {"Landlord via CAM", "Tenant direct"},
      pest_control_responsibility |-> {"Tenant", "Landlord via CAM"},
      trash_removal_responsibility |-> {"Tenant direct", "Landlord via CAM"},
      recycling_requirements |-> {"Mandatory per local ordinance", "Voluntary"},
      parking_lot_maintenance |-> {"Landlord via CAM", "Tenant direct"},
      roof_maintenance_responsibility |-> {"Landlord", "Tenant for penetrations only"},
      capital_expenditure_treatment |-> {"Amortized over useful life, pro rata to Tenant", "Excluded from operating expenses"},
      capital_expenditure_threshold |-> {<<"$", x>> : x \in {5000, 10000, 25000}},
      property_management_company |-> {"Acme Property Management LLC", "Industrial Realty Management Corp."},
      renewal_option_count |-> {1, 2, 3},
      renewal_option_term_months |-> {36, 60, 84},
      renewal_notice_months |-> {6, 9, 12},
      renewal_rent_method |-> {"Fair Market Value", "95% of Fair Market Value", "Fixed escalation from last year rent", "CPI adjustment"},
      renewal_fmv_determination |-> {"Mutual agreement, then broker determination", "Three-broker average", "Baseball arbitration"},
      renewal_ti_allowance |-> {"None", "$5.00 PSF", "$10.00 PSF"},
      expansion_option |-> {"Yes", "No"},
      expansion_notice_months |-> {6, 9, 12},
      expansion_rent_rate |-> {"Same terms as Premises", "Fair Market Value"},
      expansion_deadline_month |-> {24, 36, 48},
      expansion_ti_allowance |-> {"Pro rata of original TI", "None", "$10.00 PSF"},
      rofo_right |-> {"Yes", "No"},
      rofo_notice_days |-> {10, 15, 30},
      rofo_response_days |-> {10, 15, 20},
      rofo_matching_terms |-> {"Match third-party terms", "95% of third-party terms"},
      rofr_right |-> {"Yes", "No"},
      rofr_notice_days |-> {10, 15, 30},
      purchase_option |-> {"Yes", "No"},
      purchase_option_price_method |-> {"Fair Market Value at time of exercise", "Fixed price of $X per square foot", "Formula-based: NOI / cap rate"},
      purchase_option_due_diligence_days |-> {30, 45, 60},
      purchase_option_closing_days |-> {60, 90, 120},
      termination_option |-> {"Yes", "No"},
      termination_option_effective_month |-> {36, 48, 60},
      termination_notice_months |-> {6, 9, 12},
      termination_fee_months_rent |-> {3, 6, 9, 12},
      termination_fee_includes_unamortized_ti |-> {"Yes", "No"},
      termination_fee_includes_commission |-> {"Yes", "No"},
      contraction_option |-> {"Yes", "No"},
      contraction_notice_months |-> {9, 12},
      contraction_fee_type |-> {"Unamortized TI + commissions", "Fixed fee per sqft released"},
      relocation_right_landlord |-> {"Yes, with 90 days notice", "No"},
      must_take_space |-> {"Yes", "No"},
      must_take_deadline_month |-> {12, 24, 36},
      sublease_consent_required |-> {"Yes, not unreasonably withheld", "No, freely assignable"},
      gl_coverage_per_occurrence |-> {<<"$", x>> : x \in {1000000, 2000000, 5000000}},
      gl_coverage_aggregate |-> {<<"$", x>> : x \in {2000000, 5000000, 10000000}},
      gl_deductible_max |-> {<<"$", x>> : x \in {5000, 10000, 25000}},
      property_insurance_coverage |-> {"Replacement cost", "Actual cash value"},
      umbrella_excess_liability |-> {<<"$", x>> : x \in {5000000, 10000000, 25000000}},
      auto_liability_coverage |-> {<<"$", x>> : x \in {1000000, 2000000}},
      business_interruption_coverage_months |-> {6, 12, 18},
      professional_liability_required |-> {"Yes", "No"},
      environmental_liability_coverage |-> {<<"$", x>> : x \in {1000000, 5000000}},
      insurance_certificate_delivery_days |-> {10, 15, 30},
      insurance_renewal_notice_days |-> {15, 30},
      indemnification_survival_months |-> {12, 24, 36},
      indemnification_cap |-> {"None", "Limited to insurance proceeds", "$5,000,000"},
      mutual_waiver_of_consequential_damages |-> {"Yes", "No"},
      landlord_liability_cap |-> {"Landlord equity in property", "Insurance proceeds only", "None"},
      tenant_liability_cap |-> {"None", "Two years base rent"},
      landlord_property_insurance_deductible |-> {<<"$", x>> : x \in {25000, 50000, 100000}},
      earthquake_insurance |-> {"Included", "Excluded", "Optional at Tenant cost"},
      flood_insurance |-> {"Included", "Excluded -- not in flood zone", "Required per FEMA"},
      cyber_liability_required |-> {"Yes, $1,000,000 minimum", "No"},
      pollution_legal_liability |-> {"Required", "Not required"},
      builders_risk_during_ti |-> {"Tenant provides", "Landlord provides"},
      self_insurance_permitted |-> {"Yes, if net worth exceeds $500M", "No, third-party coverage required"},
      insurance_review_frequency |-> {"Annually", "Every 3 years"},
      insurance_adjustment_for_inflation |-> {"Yes, CPI-based", "At Landlord discretion"},
      initial_buildout_responsibility |-> {"Tenant", "Landlord per approved plans"},
      initial_buildout_deadline_days |-> {180, 240, 365},
      buildout_plan_approval_days |-> {15, 20, 30},
      buildout_plan_resubmission_days |-> {10, 15},
      construction_manager |-> {"Tenant-selected, Landlord-approved", "Landlord-designated"},
      prevailing_wage_required |-> {"Yes", "No", "Per local ordinance"},
      construction_completion_guarantee |-> {"Performance bond", "Letter of credit", "None"},
      alterations_threshold_no_approval |-> {<<"$", x>> : x \in {10000, 25000, 50000}},
      alterations_cosmetic_consent |-> {"Not required", "Notice to Landlord only"},
      alterations_removal_at_expiration |-> {"Landlord may require removal", "All alterations become Landlord property"},
      alterations_restoration_obligation |-> {"Yes, to shell condition", "Negotiated at lease end"},
      restoration_deposit_required |-> {"Yes", "No"},
      signage_right |-> {"Building-mounted and monument", "Monument only", "Suite entry only"},
      signage_size_max_sqft |-> {50, 100, 200},
      telecom_riser_access |-> {"Dedicated riser", "Shared riser"},
      telecom_equipment_rooftop |-> {"Permitted with license", "Not permitted"},
      rooftop_license_fee_monthly |-> {<<"$", x>> : x \in {500, 1000, 1500}},
      generator_permitted |-> {"Yes, pad-mounted", "No"},
      generator_fuel_type |-> {"Diesel", "Natural gas"},
      solar_panel_permitted |-> {"Yes, with Landlord approval", "No"},
      ev_charging_stations_permitted |-> {"Yes", "No"},
      racking_system_approval |-> {"Required for systems over 20 feet", "Not required"},
      floor_load_capacity_psf |-> {250, 300, 500},
      mezzanine_permitted |-> {"Yes, with structural review", "No"},
      monetary_default_cure_days |-> {5, 7, 10},
      non_monetary_default_cure_days |-> {30, 45, 60},
      non_monetary_extended_cure |-> {"Additional 30 days if diligently pursuing cure", "Up to 90 days total with Landlord approval"},
      late_fee_grace_period_days |-> {5, 7, 10},
      interest_calculation_method |-> {"Simple interest", "Compounding monthly"},
      landlord_lien_on_property |-> {"Yes, contractual lien", "Waived"},
      landlord_lockout_right |-> {"Yes, after default and cure period", "No"},
      cross_default_provision |-> {"Yes, with all Landlord affiliates", "No"},
      cross_default_cure_period_days |-> {10, 15, 30},
      acceleration_of_rent |-> {"Landlord may accelerate all remaining rent upon uncured default", "Limited to 12 months rent"},
      consequential_damages_waiver |-> {"Mutual waiver", "No waiver"},
      attorneys_fees_cap |-> {"None", "$50,000", "$100,000"},
      guarantor_name |-> {GUARANTOR_NAMES[i] : i \in DOMAIN GUARANTOR_NAMES},
      guarantor_relationship |-> {"CEO", "Principal Owner", "President"},
      guarantee_type |-> {"Full recourse", "Limited - declining over time", "Good-guy guarantee"},
      guarantee_amount_cap |-> {"Unlimited", "24 months rent", "12 months rent + TI"},
      guarantee_burndown_schedule |-> {"Reduces 25% per year", "Reduces upon meeting revenue thresholds", "No burndown"},
      guarantee_financial_reporting |-> {"Annual personal financial statement", "Quarterly"},
      bankruptcy_adequate_assurance_days |-> {30, 60},
      right_to_cure_by_lender |-> {"Yes, additional 30 days", "No"},
      right_to_cure_by_guarantor |-> {"Yes, additional 15 days", "No"},
      surrender_condition |-> {"Broom clean, good condition", "Shell condition"},
      surrender_inspection_days_before |-> {30, 60, 90},
      holdover_notice_to_vacate_days |-> {30, 60},
      landlord_default_notice_days |-> {30, 45, 60},
      landlord_default_cure_days |-> {30, 60, 90},
      rent_abatement_for_landlord_default |-> {"Yes, after notice and cure", "No"},
      tenant_offset_right |-> {"Yes, for uncured Landlord defaults", "No"},
      force_majeure_rent_abatement |-> {"Yes", "No"},
      dispute_resolution_method |-> {"Binding arbitration", "Litigation", "Mediation then arbitration"},
      hazmat_permitted |-> {"Limited to ordinary business quantities", "Prohibited", "With Landlord approval"},
      hazmat_reporting_frequency |-> {"Quarterly", "Annually", "Upon change"},
      phase_i_esa_baseline |-> {"Completed by Landlord, shared with Tenant", "Tenant may conduct at own cost"},
      phase_ii_esa_required |-> {"If Phase I recommends", "Not required"},
      environmental_indemnification_survival_years |-> {3, 5, 10},
      environmental_remediation_responsibility |-> {"Landlord for pre-existing, Tenant for Tenant-caused", "Tenant for all during lease term"},
      environmental_remediation_standard |-> {"Industrial use standard", "Residential use standard (higher)"},
      environmental_insurance_required |-> {"Yes", "No"},
      asbestos_survey_completed |-> {"Yes, no ACM found", "Yes, ACM managed in place", "Not applicable"},
      lead_paint_disclosure |-> {"Not applicable -- built after 1978", "Disclosure provided"},
      indoor_air_quality_standards |-> {"ASHRAE 62.1 compliance", "Not specified"},
      spcc_plan_required |-> {"Yes, if oil storage exceeds 1,320 gallons", "Not applicable"},
      ada_compliance_responsibility |-> {"Landlord for base building, Tenant for Premises", "Tenant for all within Premises"},
      ada_compliance_cost_sharing |-> {"Tenant 100%", "Shared pro rata"},
      fire_sprinkler_system |-> {"ESFR", "In-rack required", "Wet system adequate"},
      zoning_current_classification |-> {"I-1 Light Industrial", "I-2 Heavy Industrial", "M-1 Manufacturing"},
      zoning_special_use_permit |-> {"Not required", "Required for cold storage", "Required for hazmat"},
      energy_code_compliance |-> {"ASHRAE 90.1", "Local energy code", "LEED Silver equivalent"},
      sustainability_requirements |-> {"LED lighting, recycling program required", "None specified", "LEED certification maintenance required"},
      operating_hours_restrictions |-> {"24/7 permitted", "6AM-10PM only", "No restrictions"},
      truck_traffic_restrictions |-> {"Designated routes only", "No restrictions", "Peak hours restricted 7-9AM, 4-6PM"},
      force_majeure_max_days |-> {180, 270, 365},
      force_majeure_rent_obligation |-> {"Continues", "Abated after 30 days"},
      snda_form |-> {"Lender standard form", "Negotiated form"},
      estoppel_certificate_delivery_days |-> {10, 15, 20},
      estoppel_certificate_frequency |-> {"Upon request", "Maximum twice annually"},
      recording_of_lease |-> {"Memorandum of lease to be recorded", "Not recorded"},
      recording_cost_responsibility |-> {"Tenant", "Landlord", "Shared equally"},
      broker_landlord |-> {"CBRE", "JLL", "Cushman & Wakefield", "Colliers", "Newmark"},
      broker_tenant |-> {"Prologis Advisory", "Lee & Associates", "NAI Global", "Marcus & Millichap"},
      broker_commission_on_renewal |-> {"Yes, reduced rate", "No"},
      landlord_access_hours |-> {"Business hours only", "Any reasonable time with notice"},
      signage_on_building_directory |-> {"Included", "Not applicable"},
      confidentiality_of_lease_terms |-> {"Mutual confidentiality", "Not confidential"},
      waiver_of_jury_trial |-> {"Mutual waiver", "No waiver"},
      notices_deemed_received |-> {"3 business days after mailing", "Next business day for overnight courier"},
      assignment_consent_required |-> {"Yes, not unreasonably withheld", "Freely assignable"},
      assignment_release_of_assignor |-> {"Yes, upon Landlord approval", "No, assignor remains liable"},
      transfer_fee |-> {"None", "$5,000 administrative fee"},
      tenant_financial_reporting |-> {"Annual audited statements", "Quarterly unaudited"},
      landlord_lender_name |-> {"JPMorgan Chase", "Wells Fargo", "Bank of America", "Goldman Sachs"}
    ]

\* The bounds <<low, high>> of every field that is assigned random.randint(low,
\* high), rand_dollar, rand_pct or round(random.uniform(low, high), 2) with
\* literal bounds, directly or through a local (decimals in hundredths).
DeclaredRange ==
    [
      total_rentable_sqft |-> <<80000, 500000>>,
      dock_doors |-> <<20, 80>>,
      drive_in_doors |-> <<2, 6>>,
      trailer_parking_spaces |-> <<40, 150>>,
      auto_parking_spaces |-> <<50, 200>>,
      building_year_built |-> <<2005, 2024>>,
      base_rent_psf |-> <<450, 900>>,
      rent_escalation_pct |-> <<200, 400>>,
      free_rent_months |-> <<0, 6>>,
      security_deposit_months |-> <<1, 3>>,
      letter_of_credit_expiry_months |-> <<12, 36>>,
      ti_allowance_psf |-> <<1500, 6500>>,
      ti_deadline_months |-> <<12, 24>>,
      ti_change_order_cap_pct |-> <<500, 1500>>,
      cam_psf_estimate |-> <<120, 350>>,
      tax_psf_estimate |-> <<80, 250>>,
      insurance_psf_estimate |-> <<25, 75>>,
      mgmt_fee_pct |-> <<200, 500>>,
      late_payment_fee_pct |-> <<300, 500>>,
      interest_on_late_payment_pct |-> <<800, 1800>>,
      opex_cap_pct |-> <<300, 700>>,
      controllable_expense_cap_pct |-> <<300, 500>>,
      reserve_fund_contribution_psf |-> <<10, 50>>,
      property_management_fee_pct |-> <<200, 500>>,
      administrative_overhead_pct |-> <<300, 1000>>,
      tenant_proportionate_share_pct |-> <<3000, 10000>>,
      expansion_space_sqft |-> <<20000, 100000>>,
      contraction_min_sqft_retained |-> <<30000, 80000>>,
      must_take_space_sqft |-> <<10000, 50000>>,
      sublease_profit_sharing_pct |-> <<0, 5000>>,
      construction_oversight_fee_pct |-> <<200, 500>>,
      late_fee_percentage |-> <<300, 500>>,
      interest_on_past_due_rate |-> <<800, 1800>>
    ]

----------------------------------------------------------------------------
(* generate_complex_lease and main *)

VARIABLES
    pc,            \* where the program is
    run,           \* "first" or "second": the batch is run twice
    num,           \* main's loop variable i, generate_complex_lease's num
    idx,           \* which assignment of lines 1453-1461 is next
    rng,           \* the state of the process-wide random source
    seed42,        \* the state random.seed(42) installs
    now,           \* the wall clock's date, as datetime.now() last read it
    ticks,         \* midnights passed so far
    locals,        \* generate_complex_lease's section mappings assigned so far
    data,          \* generate_complex_lease's merged record
    ret,           \* what generate_complex_lease returned
    total_fields,  \* main's total_fields
    stdout,        \* the lines main printed
    files,         \* OUTPUT_DIR: file name -> the story doc.build wrote
    exc,           \* the exception that ended the process, "" if none
    prevFiles,     \* OUTPUT_DIR as the first run left it
    schemas,       \* the key sets of the merged records built so far
    generated_files  \* the phase-1 main's generated_files

vars ==
    <<pc, run, num, idx, rng, seed42, now, ticks, locals, data, ret,
      total_fields, stdout, files, exc, prevFiles, schemas, generated_files>>

\* The dates the first run may start on.
StartDates == {[y |-> 2026, m |-> 11, d |-> 5], [y |-> 2027, m |-> 12, d |-> 2]}

\* range(1, 4)
RangeStart == 1
RangeStop == 4

\* "AI_EXTRACT limit: 100 questions/call"
ExtractLimit == 100

\* C1 mutant: the merge loop keeps the helper keys.
StartsWithUnderscore_Never(k) == FALSE

\* C9 mutant: the merge loop tests `'_' in k`, true of every key but market.
StartsWithUnderscore_Anywhere(k) == k # "market"

\* C23 mutant: the merge loop tests `k != '_sqft'`.
StartsWithUnderscore_SqftOnly(k) == k = "_sqft"

\* k.startswith('_'), for the keys the section mappings hold.
StartsWithUnderscore(k) == k \in {"_start", "_end", "_sqft"}

\* C8 mutant: financial is assigned before core.
CallOrder_FinancialFirst ==
    <<"financial", "core", "opex", "options", "insurance", "construction",
      "default", "environmental", "miscellaneous">>

\* The assignments of generate_complex_lease, in program order.
CallOrder ==
    <<"core", "financial", "opex", "options", "insurance", "construction",
      "default", "environmental", "miscellaneous">>

\* The list the merge loop iterates.
MergeOrder ==
    <<"core", "financial", "opex", "options", "insurance", "construction",
      "default", "environmental", "miscellaneous">>

\* The generators that are passed core.
TakesCore == {"financial", "opex", "options", "construction", "miscellaneous"}

\* The keys of core each generator looks up.
Reads ==
    [core |-> {}, financial |-> {"_sqft"}, opex |-> {"_sqft"},
     options |-> {"lease_term_months"}, insurance |-> {},
     construction |-> {"_sqft"}, default |-> {}, environmental |-> {},
     miscellaneous |-> {"property_state", "property_county",
                        "auto_parking_spaces", "trailer_parking_spaces"}]

\* The number of draws each generator makes from the random source.
Draws ==
    [core |-> 24, financial |-> 30, opex |-> 32, options |-> 40,
     insurance |-> 26, construction |-> 26, default |-> 32,
     environmental |-> 22, miscellaneous |-> 21]

\* C3 mutant: miscellaneous is assigned gen_default_remedies() (a copied line).
CallGenerator_CopiedLine(name, s, lv, today) ==
    CASE name = "core" -> gen_core_terms(s, today)
      [] name = "financial" -> gen_financial(s, lv["core"])
      [] name = "opex" -> gen_operating_expenses(s, lv["core"])
      [] name = "options" -> gen_options(s, lv["core"])
      [] name = "insurance" -> gen_insurance_liability(s)
      [] name = "construction" -> gen_construction_alterations(s, lv["core"])
      [] name = "default" -> gen_default_remedies(s)
      [] name = "environmental" -> gen_environmental_compliance(s, today)
      [] name = "miscellaneous" -> gen_default_remedies(s)

\* C22 mutant: the later generators read a '_sqft' rounded down to whole
\* thousands.
CallGenerator_RoundedSqft(name, s, lv, today) ==
    LET core == IF "core" \in DOMAIN lv /\ "_sqft" \in DOMAIN lv["core"]
                THEN [lv["core"] EXCEPT !["_sqft"] = (@ \div 1000) * 1000]
                ELSE IF "core" \in DOMAIN lv THEN lv["core"] ELSE <<>>
    IN  CASE name = "core" -> gen_core_terms(s, today)
          [] name = "financial" -> gen_financial(s, core)
          [] name = "opex" -> gen_operating_expenses(s, core)
          [] name = "options" -> gen_options(s, core)
          [] name = "insurance" -> gen_insurance_liability(s)
          [] name = "construction" -> gen_construction_alterations(s, core)
          [] name = "default" -> gen_default_remedies(s)
          [] name = "environmental" -> gen_environmental_compliance(s, today)
          [] name = "miscellaneous" -> gen_miscellaneous(s, core)

\* The right-hand side of the assignment to local `name`; lv are the locals
\* assigned so far.
CallGenerator(name, s, lv, today) ==
    CASE name = "core" -> gen_core_terms(s, today)
      [] name = "financial" -> gen_financial(s, lv["core"])
      [] name = "opex" -> gen_operating_expenses(s, lv["core"])
      [] name = "options" -> gen_options(s, lv["core"])
      [] name = "insurance" -> gen_insurance_liability(s)
      [] name = "construction" -> gen_construction_alterations(s, lv["core"])
      [] name = "default" -> gen_default_remedies(s)
      [] name = "environmental" -> gen_environmental_compliance(s, today)
      [] name = "miscellaneous" -> gen_miscellaneous(s, lv["core"])

\* random.randint raises ValueError on an empty range; the one range with a
\* computed bound is office_sqft's, randint(2000, int(sqft * 0.05)).
EmptyRange(name, s) ==
    name = "core" /\ 2000 > IntOfFivePercent(randint(80000, 500000, Raw(s, 8)))

\* C2 mutant: the merge loop skips a zero free_rent_months (`if v and ...`).
MergeInto_SkipZero(d, section) ==
    LET kept == {j \in DOMAIN section :
                    /\ ~ StartsWithUnderscore(j)
                    /\ ~ (j = "free_rent_months" /\ section[j] = 0)}
    IN  [k \in DOMAIN d \cup kept |-> IF k \in kept THEN section[k] ELSE d[k]]

\* C10 mutant: data.setdefault(k, v), the first value is kept.
MergeInto_KeepFirst(d, section) ==
    [k \in DOMAIN d \cup {j \in DOMAIN section : ~ StartsWithUnderscore(j)} |->
        IF k \in DOMAIN d THEN d[k] ELSE section[k]]

\* for k, v in section.items(): if not k.startswith('_'): data[k] = v
MergeInto(d, section) ==
    [k \in DOMAIN d \cup {j \in DOMAIN section : ~ StartsWithUnderscore(j)} |->
        IF k \in DOMAIN section /\ ~ StartsWithUnderscore(k)
        THEN section[k] ELSE d[k]]

RECURSIVE MergeSections(_, _, _)
\* data = {}; for section in [core, ..., miscellaneous]: ...
MergeSections(d, order, lv) ==
    IF order = <<>> THEN d
    ELSE MergeSections(MergeInto(d, lv[Head(order)]), Tail(order), lv)

RECURSIVE Digits(_)
Digits(n) == IF n < 10 THEN <<n>> ELSE Append(Digits(n \div 10), n % 10)

\* C16 mutant: f"{n}", the padding is lost.
ZeroPad3_Unpadded(n) == Digits(n)

\* f"{n:03d}": the decimal digits, zero-padded to 3.
ZeroPad3(n) ==
    IF n < 10 THEN <<0, 0, n>> ELSE IF n < 100 THEN <<0>> \o Digits(n)
    ELSE Digits(n)

\* f"complex_lease_{num:03d}.pdf"
Filename(n) == <<"complex_lease_", ZeroPad3(n), ".pdf">>

\* The fields whose values the paragraphs of build_lease_pdf quote.
RenderRefs(d) ==
    IF d["free_rent_months"] > 0 THEN UnconditionalRefs \cup AbatementRefs
    ELSE UnconditionalRefs

\* C21 mutant: the abatement paragraph is emitted whatever free_rent_months is.
QuotedRefs_AlwaysAbatement(d) == UnconditionalRefs \cup AbatementRefs

\* C28 mutant: the two texts of the abatement conditional are swapped.
QuotedRefs_Swapped(d) ==
    IF d["free_rent_months"] > 0 THEN UnconditionalRefs \ AbatementRefs
    ELSE UnconditionalRefs \cup AbatementRefs

\* The fields the paragraphs interpolate: every lookup is inside an f-string
\* but the free_rent_months of the abatement condition, which chooses between
\* the abatement sentence and the fixed "no abatement" text.
QuotedRefs(d) ==
    IF d["free_rent_months"] > 0 THEN UnconditionalRefs \cup AbatementRefs
    ELSE UnconditionalRefs \ AbatementRefs

\* The story build_lease_pdf assembles: the values its paragraphs quote.
Story(d) == [k \in QuotedRefs(d) |-> d[k]]

\* What datetime.now() may return.
ClockReadings == IF ticks < MaxTicks THEN {now, AddDays(now, 1)} ELSE {now}

----------------------------------------------------------------------------
(* phase1_doc_intelligence/00_generate_leases.py: pools and generators.     *)
(* The script's module-level names that phase 2 also uses carry a P1_       *)
(* prefix here.                                                             *)

P1_MARKETS ==
    <<"Chicago", "Dallas", "Atlanta", "Los Angeles", "New Jersey", "Phoenix",
      "Denver">>

P1_TENANT_COMPANIES ==
    <<<<"Apex Distribution LLC", "Delaware">>,
      <<"GlobalTech Fulfillment Inc.", "California">>,
      <<"Midwest Logistics Partners", "Illinois">>,
      <<"SunBelt Supply Chain Co.", "Texas">>,
      <<"Pacific Freight Solutions", "Nevada">>,
      <<"Eastern Seaboard Warehousing", "New Jersey">>>>

P1_PROPERTY_ADDRESSES ==
    <<<<"1500 Industrial Parkway", "Romeoville", "IL", "60446">>,
      <<"8200 Commerce Drive", "Irving", "TX", "75063">>,
      <<"3400 Logistics Boulevard", "McDonough", "GA", "30253">>,
      <<"12000 Distribution Way", "Ontario", "CA", "91761">>,
      <<"500 Terminal Road", "Elizabeth", "NJ", "07201">>,
      <<"7800 Warehouse Lane", "Phoenix", "AZ", "85043">>>>

\* generate_lease_id(): f"LNK-{random.randint(2023, 2025)}-{random.randint(10000,
\* 99999)}", with draws k and k + 1 after state s.
P1_generate_lease_id(s, k) ==
    <<"LNK-", randint(2023, 2025, Raw(s, k)), "-", randint(10000, 99999, Raw(s, k + 1))>>

\* The values the paragraphs of the three random phase-1 leases quote, and
\* the file name; terms are the choices of term_months, sqft_low .. sqft_high
\* and psf_low .. psf_high the ranges of sqft and rent_psf.  Nine draws.
P1_CommonTerms(s, today, label, lease_num, terms, sqft_low, sqft_high, psf_low, psf_high) ==
    LET tenant_entry == choice(P1_TENANT_COMPANIES, Raw(s, 3))
        address_entry == choice(P1_PROPERTY_ADDRESSES, Raw(s, 4))
        start_date == AddDays(today, randint(30, 90, Raw(s, 6)))
        term_months == choice(terms, Raw(s, 7))
        sqft == randint(sqft_low, sqft_high, Raw(s, 8))
        rent_psf == Round2Uniform(psf_low, psf_high, Raw(s, 9))
    IN  [filename |-> <<label, ZeroPad3(lease_num), ".pdf">>,
         lease_id |-> P1_generate_lease_id(s, 1),
         tenant |-> tenant_entry[1],
         tenant_state |-> tenant_entry[2],
         address |-> address_entry[1],
         city |-> address_entry[2],
         state |-> address_entry[3],
         zip_code |-> address_entry[4],
         market |-> choice(P1_MARKETS, Raw(s, 5)),
         start_date |-> strftime(start_date),
         end_date |-> strftime(AddMonths(start_date, term_months)),
         term_months |-> term_months,
         sqft |-> sqft,
         rent_psf |-> rent_psf,
         annual_rent |-> sqft * rent_psf]

\* generate_high_risk_lease(lease_num): what it hands to doc.build.
generate_high_risk_lease(s, today, lease_num) ==
    P1_CommonTerms(s, today, "lease_high_risk_", lease_num, <<36, 60, 84>>,
                   150000, 400000, 450, 750)

\* C24 mutant: the medium-risk lease takes the standard two months' deposit.
generate_medium_risk_lease_TwoMonths(s, today, lease_num) ==
    LET common == P1_CommonTerms(s, today, "lease_medium_risk_", lease_num,
                                 <<60, 84, 120>>, 100000, 300000, 500, 800)
    IN  [security_deposit |-> RoundHalfEven(common.annual_rent, 6),
         ti_allowance |-> 5500,
         ti_allowance_total |-> 5500 * common.sqft] @@ common

\* generate_medium_risk_lease(lease_num): ti_allowance = 55,
\* security_deposit = annual_rent / 12.
generate_medium_risk_lease(s, today, lease_num) ==
    LET common == P1_CommonTerms(s, today, "lease_medium_risk_", lease_num,
                                 <<60, 84, 120>>, 100000, 300000, 500, 800)
    IN  [security_deposit |-> RoundHalfEven(common.annual_rent, 12),
         ti_allowance |-> 5500,
         ti_allowance_total |-> 5500 * common.sqft] @@ common

\* generate_low_risk_lease(lease_num): security_deposit = annual_rent / 12 * 2,
\* ti_allowance = 25, and a tenth draw for cam_psf.
generate_low_risk_lease(s, today, lease_num) ==
    LET common == P1_CommonTerms(s, today, "lease_standard_", lease_num,
                                 <<60, 84, 120>>, 75000, 250000, 550, 850)
    IN  [security_deposit |-> RoundHalfEven(common.annual_rent, 6),
         cam_psf |-> Round2Uniform(150, 250, Raw(s, 10)),
         ti_allowance |-> 2500,
         ti_allowance_total |-> 2500 * common.sqft] @@ common

SpanishMonths ==
    <<"enero", "febrero", "marzo", "abril", "mayo", "junio", "julio", "agosto",
      "septiembre", "octubre", "noviembre", "diciembre">>

\* strftime('%d de %B de %Y') with the month names replaced.
SpanishDate(dt) == <<dt.d, " de ", SpanishMonths[dt.m], " de ", dt.y>>

\* generate_spanish_lease_miami(): no draw; only the dates vary.
generate_spanish_lease_miami(today) ==
    LET start_date == AddDays(today, 45)
    IN  [filename |-> <<"lease_spanish_miami_001.pdf">>,
         lease_id |-> <<"LNK-2024-78543">>,
         tenant |-> "Distribuidora Caribe, S.A.",
         tenant_state |-> "Florida",
         address |-> "9500 NW 112th Avenue",
         city |-> "Miami",
         state |-> "FL",
         zip_code |-> "33178",
         market |-> "Miami",
         start_date |-> SpanishDate(start_date),
         end_date |-> SpanishDate(AddMonths(start_date, 60)),
         term_months |-> 60,
         sqft |-> 185000,
         rent_psf |-> 725,
         annual_rent |-> 185000 * 725,
         security_deposit |-> RoundHalfEven(185000 * 725, 6),
         cam_psf |-> 210,
         ti_allowance |-> 2500,
         ti_allowance_total |-> 2500 * 185000]

----------------------------------------------------------------------------
(* The processes *)

\* Either script is run: the phase-2 generator, or the phase-1 generator, which
\* never seeds the random source.
Init ==
    /\ \/ pc = "main" /\ seed42 \in RngStates
       \/ pc = "p1_main" /\ seed42 = 0
    /\ run = "first"
    /\ num = 0
    /\ idx = 0
    /\ rng \in RngStates
    /\ now \in StartDates
    /\ ticks = 0
    /\ locals = <<>>
    /\ data = <<>>
    /\ ret = <<>>
    /\ total_fields = 0
    /\ stdout = <<>>
    /\ files = <<>>
    /\ exc = ""
    /\ prevFiles = <<>>
    /\ schemas = {}
    /\ generated_files = <<>>

\* An exception nobody catches: main has no handler, the process ends.
Raise(e) ==
    /\ pc' = "crashed"
    /\ exc' = e
    /\ UNCHANGED <<generated_files, run, num, idx, rng, seed42, now, ticks, locals, data, ret,
                   total_fields, stdout, files, prevFiles, schemas>>

\* main, up to the loop: random.seed(42); total_fields = 0
MainStart ==
    /\ pc = "main"
    /\ rng' = seed42
    /\ total_fields' = 0
    /\ num' = RangeStart
    /\ stdout' = << <<"Complex Lease Generator -- Phase 2">> >>
    /\ pc' = "loop"
    /\ UNCHANGED <<generated_files, run, idx, seed42, now, ticks, locals, data, ret, files, exc,
                   prevFiles, schemas>>

\* C17 mutant: the loop runs while i <= 4, a fourth document.
MainLoop_Inclusive ==
    /\ pc = "loop"
    /\ IF num <= RangeStop
       THEN pc' = "sections" /\ idx' = 1
       ELSE pc' = "summary" /\ idx' = idx
    /\ UNCHANGED <<generated_files, run, num, rng, seed42, now, ticks, locals,
                   data, ret, total_fields, stdout, files, exc, prevFiles,
                   schemas>>

\* C19 mutant: random.seed(42) is moved into the loop body.
MainLoop_Reseeds ==
    /\ pc = "loop"
    /\ IF num < RangeStop
       THEN pc' = "sections" /\ idx' = 1 /\ rng' = seed42
       ELSE pc' = "summary" /\ idx' = idx /\ rng' = rng
    /\ UNCHANGED <<generated_files, run, num, seed42, now, ticks, locals,
                   data, ret, total_fields, stdout, files, exc, prevFiles,
                   schemas>>

\* for i in range(1, 4): generate_complex_lease(i)
MainLoop ==
    /\ pc = "loop"
    /\ IF num < RangeStop
       THEN pc' = "sections" /\ idx' = 1
       ELSE pc' = "summary" /\ idx' = idx
    /\ UNCHANGED <<generated_files, run, num, rng, seed42, now, ticks, locals, data, ret,
                   total_fields, stdout, files, exc, prevFiles, schemas>>

\* C30 mutant: gen_financial draws the abatement condition from a pool, and
\* only when free_rent_months > 0.
Section_ConditionalDraw(name, t) ==
    /\ pc = "sections"
    /\ CallOrder[idx] = name
    /\ IF name \in TakesCore /\ "core" \notin DOMAIN locals
       THEN Raise("UnboundLocalError")
       ELSE IF name \in TakesCore /\ ~ (Reads[name] \subseteq DOMAIN locals["core"])
       THEN Raise("KeyError")
       ELSE IF EmptyRange(name, rng)
       THEN Raise("ValueError")
       ELSE /\ locals' = (name :> CallGenerator(name, rng, locals, t)) @@ locals
            /\ rng' = Advance(rng, Draws[name] +
                              (IF name = "financial"
                                  /\ locals'["financial"]["free_rent_months"] > 0
                               THEN 1 ELSE 0))
            /\ now' = t
            /\ ticks' = IF t = now THEN ticks ELSE ticks + 1
            /\ IF idx < Len(CallOrder)
               THEN idx' = idx + 1 /\ pc' = pc
               ELSE idx' = idx /\ pc' = "merge"
            /\ UNCHANGED <<generated_files, run, num, seed42, data, ret, total_fields, stdout,
                           files, exc, prevFiles, schemas>>

\* One assignment `name = gen_...(...)` of generate_complex_lease; t is what
\* datetime.now() returns to a generator that reads the clock.
Section(name, t) ==
    /\ pc = "sections"
    /\ CallOrder[idx] = name
    /\ IF name \in TakesCore /\ "core" \notin DOMAIN locals
       THEN Raise("UnboundLocalError")
       ELSE IF name \in TakesCore /\ ~ (Reads[name] \subseteq DOMAIN locals["core"])
       THEN Raise("KeyError")
       ELSE IF EmptyRange(name, rng)
       THEN Raise("ValueError")
       ELSE /\ locals' = (name :> CallGenerator(name, rng, locals, t)) @@ locals
            /\ rng' = Advance(rng, Draws[name])
            /\ now' = t
            /\ ticks' = IF t = now THEN ticks ELSE ticks + 1
            /\ IF idx < Len(CallOrder)
               THEN idx' = idx + 1 /\ pc' = pc
               ELSE idx' = idx /\ pc' = "merge"
            /\ UNCHANGED <<generated_files, run, num, seed42, data, ret, total_fields, stdout,
                           files, exc, prevFiles, schemas>>

GenCoreTerms == \E t \in ClockReadings : Section("core", t)
GenFinancial == Section("financial", now)
GenOperatingExpenses == Section("opex", now)
GenOptions == Section("options", now)
GenInsuranceLiability == Section("insurance", now)
GenConstructionAlterations == Section("construction", now)
GenDefaultRemedies == Section("default", now)
GenEnvironmentalCompliance == \E t \in ClockReadings : Section("environmental", t)
GenMiscellaneous == Section("miscellaneous", now)

\* The merge loop of generate_complex_lease.
Merge ==
    /\ pc = "merge"
    /\ data' = MergeSections(<<>>, MergeOrder, locals)
    /\ schemas' = schemas \cup {DOMAIN data'}
    /\ pc' = "build"
    /\ UNCHANGED <<generated_files, run, num, idx, rng, seed42, now, ticks, locals, ret,
                   total_fields, stdout, files, exc, prevFiles>>

\* C13 mutant: main wraps the call in try/except, logs and goes on.
DocBuildFails_Skipped(name) ==
    /\ pc' = IF pc = "build" THEN "loop" ELSE "p1_loop"
    /\ exc' = "OSError"
    /\ num' = num + 1
    /\ locals' = <<>>
    /\ data' = <<>>
    /\ UNCHANGED <<generated_files, run, idx, rng, seed42, now, ticks, ret,
                   total_fields, stdout, files, prevFiles, schemas>>

\* doc.build(story) fails (the file cannot be opened or written): the error
\* is the collaborator's, nobody catches it; the file name is absent or holds
\* a truncated artifact, here the empty story.
DocBuildFails(name) ==
    /\ pc' = "crashed"
    /\ exc' = "OSError"
    /\ files' \in {files, (name :> <<>>) @@ files}
    /\ UNCHANGED <<generated_files, run, num, idx, rng, seed42, now, ticks,
                   locals, data, ret, total_fields, stdout, prevFiles, schemas>>

\* C14 mutant: the file is written paragraph by paragraph, so a lookup that
\* fails leaves the paragraphs before it on disk.
BuildLeasePdf_WritesAsItGoes ==
    /\ pc = "build"
    /\ files' = (Filename(num) :>
                    [k \in UnconditionalRefs \cap DOMAIN data |-> data[k]]) @@ files
    /\ IF UnconditionalRefs \subseteq DOMAIN data
       THEN pc' = "built" /\ exc' = exc
       ELSE pc' = "crashed" /\ exc' = "KeyError"
    /\ UNCHANGED <<generated_files, run, num, idx, rng, seed42, now, ticks,
                   locals, data, ret, total_fields, stdout, prevFiles, schemas>>

\* C15 mutant: build_lease_pdf pops the abatement text as it quotes it.
BuildLeasePdf_Pops ==
    /\ pc = "build"
    /\ files' = (Filename(num) :> Story(data)) @@ files
    /\ data' = [k \in DOMAIN data \ {"free_rent_conditions"} |-> data[k]]
    /\ pc' = "built"
    /\ UNCHANGED <<generated_files, run, num, idx, rng, seed42, now, ticks,
                   locals, ret, total_fields, stdout, exc, prevFiles, schemas>>

\* C11 mutant: build_lease_pdf quotes d.get(...), a missing field is skipped.
BuildLeasePdf_Get ==
    /\ pc = "build"
    /\ files' = (Filename(num) :>
                    [k \in RenderRefs(data) \cap DOMAIN data |-> data[k]]) @@ files
    /\ pc' = "built"
    /\ UNCHANGED <<generated_files, run, num, idx, rng, seed42, now, ticks,
                   locals, data, ret, total_fields, stdout, exc, prevFiles,
                   schemas>>

\* build_lease_pdf(data, filename): the story is assembled, then doc.build
\* writes the file.
BuildLeasePdf ==
    /\ pc = "build"
    /\ IF ~ (UnconditionalRefs \subseteq DOMAIN data)
       THEN Raise("KeyError")
       ELSE IF data["free_rent_months"] > 0 /\ ~ (AbatementRefs \subseteq DOMAIN data)
       THEN Raise("KeyError")
       ELSE \/ /\ files' = (Filename(num) :> Story(data)) @@ files
               /\ pc' = "built"
               /\ UNCHANGED <<generated_files, run, num, idx, rng, seed42, now,
                              ticks, locals, data, ret, total_fields, stdout,
                              exc, prevFiles, schemas>>
            \/ DocBuildFails(Filename(num))

\* C20 mutant: the sections are kept in a module-level mapping that outlives
\* the call.
ReturnFilenameAndCount_KeepsSections ==
    /\ pc = "built"
    /\ ret' = <<Filename(num), Cardinality(DOMAIN data)>>
    /\ pc' = "returned"
    /\ UNCHANGED <<generated_files, run, num, idx, rng, seed42, now, ticks,
                   locals, data, total_fields, stdout, files, exc, prevFiles,
                   schemas>>

\* return filename, len(data): the call's locals are gone.
ReturnFilenameAndCount ==
    /\ pc = "built"
    /\ ret' = <<Filename(num), Cardinality(DOMAIN data)>>
    /\ locals' = <<>>
    /\ data' = <<>>
    /\ pc' = "returned"
    /\ UNCHANGED <<generated_files, run, num, idx, rng, seed42, now, ticks,
                   total_fields, stdout, files, exc, prevFiles, schemas>>

\* The rest of main's loop body: total_fields = field_count; print(...)
MainRecord ==
    /\ pc = "returned"
    /\ total_fields' = ret[2]
    /\ stdout' = Append(stdout, <<"Generated", ret[1], ret[2]>>)
    /\ num' = num + 1
    /\ pc' = "loop"
    /\ UNCHANGED <<generated_files, run, idx, rng, seed42, now, ticks, locals, data, ret, files,
                   exc, prevFiles, schemas>>

\* The pass count with the quotient rounded down and one added.
MinimumPasses_FloorPlusOne(total) == (total \div 100) + 1

\* (total_fields + 99) // 100
MinimumPasses(total) == (total + 99) \div 100

\* The summary main prints after the loop.
MainSummary ==
    /\ pc = "summary"
    /\ stdout' = stdout \o
           << <<"Total extractable fields per lease", total_fields>>,
              <<"AI_EXTRACT limit", ExtractLimit>>,
              <<"Minimum passes needed", MinimumPasses(total_fields)>> >>
    /\ pc' = "exit"
    /\ UNCHANGED <<generated_files, run, num, idx, rng, seed42, now, ticks, locals, data, ret,
                   total_fields, files, exc, prevFiles, schemas>>

\* The script is run again: a new process, whose random source starts in any
\* state; the output directory and the clock are the machine's.
Rerun ==
    /\ pc = "exit"
    /\ run = "first"
    /\ run' = "second"
    /\ prevFiles' = files
    /\ rng' \in RngStates
    /\ pc' = "main"
    /\ num' = 0
    /\ idx' = 0
    /\ ret' = <<>>
    /\ total_fields' = 0
    /\ stdout' = <<>>
    /\ UNCHANGED <<generated_files, seed42, now, ticks, locals, data, files, exc, schemas>>

\* ---- phase1_doc_intelligence/00_generate_leases.py: main ----
\* idx is which of main's four blocks runs (high, medium, standard, Spanish),
\* num the loop variable i of range(1, 3), locals the running generator's
\* local values.
P1RangeStart == 1
P1RangeStop == 3

\* The headings main prints, and what each generator prints.
P1Heading ==
    <<"Generating HIGH RISK leases...", "Generating MEDIUM RISK leases...",
      "Generating LOW RISK (standard) leases...",
      "Generating SPANISH (Miami) lease...">>

P1Printed ==
    <<"Generated HIGH RISK lease", "Generated MEDIUM RISK lease",
      "Generated LOW RISK (standard) lease", "Generated SPANISH (Miami) lease">>

\* main, up to the first loop: generated_files = []
P1MainStart ==
    /\ pc = "p1_main"
    /\ generated_files' = <<>>
    /\ stdout' = << <<"Generating Synthetic Industrial Lease Documents">>,
                    <<P1Heading[1]>> >>
    /\ idx' = 1
    /\ num' = P1RangeStart
    /\ pc' = "p1_loop"
    /\ UNCHANGED <<run, rng, seed42, now, ticks, locals, data, ret,
                   total_fields, files, exc, prevFiles, schemas>>

\* A for loop of main is exhausted: the next block's heading is printed.
P1NextBlock ==
    /\ pc = "p1_loop"
    /\ idx <= 3
    /\ num >= P1RangeStop
    /\ idx' = idx + 1
    /\ num' = P1RangeStart
    /\ stdout' = Append(stdout, <<P1Heading[idx + 1]>>)
    /\ UNCHANGED <<generated_files, pc, run, rng, seed42, now, ticks, locals,
                   data, ret, total_fields, files, exc, prevFiles, schemas>>

\* A generator of block k runs up to doc.build: it draws its values (draws of
\* them from the random source) and reads the clock once, as t.
P1Generate(k, values, draws, t) ==
    /\ pc = "p1_loop"
    /\ idx = k
    /\ k <= 3 => num < P1RangeStop
    /\ locals' = values
    /\ rng' = Advance(rng, draws)
    /\ now' = t
    /\ ticks' = IF t = now THEN ticks ELSE ticks + 1
    /\ pc' = "p1_build"
    /\ UNCHANGED <<generated_files, run, num, idx, seed42, data, ret,
                   total_fields, stdout, files, exc, prevFiles, schemas>>

GenerateHighRiskLease ==
    \E t \in ClockReadings :
        P1Generate(1, generate_high_risk_lease(rng, t, num), 9, t)

GenerateMediumRiskLease ==
    \E t \in ClockReadings :
        P1Generate(2, generate_medium_risk_lease(rng, t, num), 9, t)

GenerateLowRiskLease ==
    \E t \in ClockReadings :
        P1Generate(3, generate_low_risk_lease(rng, t, num), 10, t)

GenerateSpanishLeaseMiami ==
    \E t \in ClockReadings :
        P1Generate(4, generate_spanish_lease_miami(t), 0, t)

\* doc.build(story); print(...); return filename, and main's
\* generated_files.append(...).
P1DocBuild ==
    /\ pc = "p1_build"
    /\ \/ /\ files' = (locals.filename :> locals) @@ files
          /\ stdout' = Append(stdout, <<P1Printed[idx], locals.filename>>)
          /\ generated_files' = Append(generated_files, locals.filename)
          /\ locals' = <<>>
          /\ IF idx <= 3
             THEN num' = num + 1 /\ pc' = "p1_loop"
             ELSE num' = num /\ pc' = "p1_summary"
          /\ UNCHANGED <<run, idx, rng, seed42, now, ticks, data, ret,
                         total_fields, exc, prevFiles, schemas>>
       \/ DocBuildFails(locals.filename)

\* The summary main prints, and return generated_files.
P1MainSummary ==
    /\ pc = "p1_summary"
    /\ stdout' = Append(stdout, <<"Generated lease documents", Len(generated_files)>>)
                     \o [j \in DOMAIN generated_files |-> <<"-", generated_files[j]>>]
    /\ ret' = generated_files
    /\ pc' = "p1_exit"
    /\ UNCHANGED <<generated_files, run, num, idx, rng, seed42, now, ticks,
                   locals, data, total_fields, files, exc, prevFiles, schemas>>

Next ==
    \/ MainStart
    \/ MainLoop
    \/ GenCoreTerms
    \/ GenFinancial
    \/ GenOperatingExpenses
    \/ GenOptions
    \/ GenInsuranceLiability
    \/ GenConstructionAlterations
    \/ GenDefaultRemedies
    \/ GenEnvironmentalCompliance
    \/ GenMiscellaneous
    \/ Merge
    \/ BuildLeasePdf
    \/ ReturnFilenameAndCount
    \/ MainRecord
    \/ MainSummary
    \/ Rerun
    \/ P1MainStart
    \/ P1NextBlock
    \/ GenerateHighRiskLease
    \/ GenerateMediumRiskLease
    \/ GenerateLowRiskLease
    \/ GenerateSpanishLeaseMiami
    \/ P1DocBuild
    \/ P1MainSummary

Spec == Init /\ [][Next]_vars

----------------------------------------------------------------------------
(* Claims *)

\* The public keys of a section mapping.
PublicKeys(section) == {k \in DOMAIN section : ~ StartsWithUnderscore(k)}

\* The "Generated: <file> (<n> fields)" lines printed so far.
GeneratedLines == {j \in DOMAIN stdout : stdout[j][1] = "Generated"}

\* C1: every document generate_complex_lease produces has a merged record of
\* exactly 351 fields, and 351 is the len(data) it returns and main prints,
\* whatever the draws.
C1_Exactly351Fields ==
    /\ pc = "build" => Cardinality(DOMAIN data) = 351
    /\ pc = "returned" => ret[2] = 351
    /\ \A j \in GeneratedLines : stdout[j][3] = 351

\* C1 witness: a batch has printed its three documents, 351 fields each.
C1_Witness ==
    /\ pc = "summary"
    /\ \A n \in 1 .. 3 : stdout[n + 1] = <<"Generated", Filename(n), 351>>

\* C2: all merged records, of one run or of both, have the same key set, and
\* the count main keeps in total_fields is the count of every document of the
\* batch.
C2_SchemaStability ==
    /\ Cardinality(schemas) <= 1
    /\ pc \in {"summary", "exit"} =>
           \A j \in GeneratedLines : stdout[j][3] = total_fields

\* C2 witness: the second run is over, every record had the one key set, and
\* two documents of it differ in their values.
C2_Witness ==
    /\ pc = "exit"
    /\ run = "second"
    /\ Cardinality(schemas) = 1
    /\ Cardinality(GeneratedLines) = 3
    /\ files[Filename(1)]["lease_id"] # files[Filename(2)]["lease_id"]

RECURSIVE SumPublicKeys(_, _)
\* The number of public keys of the section mappings named in order.
SumPublicKeys(order, lv) ==
    IF order = <<>> THEN 0
    ELSE Cardinality(PublicKeys(lv[Head(order)])) + SumPublicKeys(Tail(order), lv)

\* C3: the merged record has as many keys as the nine section mappings have
\* public keys together, no two sections share a public key, and every public
\* field is in the record with the value its section gave it.
C3_EveryFieldExactlyOnce ==
    pc = "build" =>
        /\ Cardinality(DOMAIN data) = SumPublicKeys(MergeOrder, locals)
        /\ \A a, b \in DOMAIN locals :
               a # b => PublicKeys(locals[a]) \cap PublicKeys(locals[b]) = {}
        /\ \A a \in DOMAIN locals : \A k \in PublicKeys(locals[a]) :
               k \in DOMAIN data /\ data[k] = locals[a][k]

\* C3 witness: a record of 351 keys merged from nine mappings.
C3_Witness ==
    /\ pc = "build"
    /\ Cardinality(DOMAIN locals) = 9
    /\ SumPublicKeys(MergeOrder, locals) = 351
    /\ Cardinality(DOMAIN data) = 351

\* next is within half a hundredth of prev * (1 + pct / 100): it is that
\* product rounded to 2 places.  next * 10000 - prev * (10000 + pct), with
\* prev = hi * 10000 + lo, is ((next - prev) - hi * pct) * 10000 - lo * pct.
IsEscalated(prev, next, pct) ==
    LET hi == prev \div 10000
        lo == prev % 10000
        err == (((next - prev) - (hi * pct)) * 10000) - (lo * pct)
    IN  err >= -5000 /\ err <= 5000

\* C4: annual_base_rent is total_rentable_sqft x base_rent_psf rounded to 2
\* places, and each of years 2 to 5 is the year before it times
\* (1 + rent_escalation_pct / 100), rounded to 2 places.
C4_RentChain ==
    pc = "build" =>
        /\ data["annual_base_rent"] =
               data["total_rentable_sqft"] * data["base_rent_psf"]
        /\ IsEscalated(data["annual_base_rent"], data["yr2_annual_rent"],
                       data["rent_escalation_pct"])
        /\ IsEscalated(data["yr2_annual_rent"], data["yr3_annual_rent"],
                       data["rent_escalation_pct"])
        /\ IsEscalated(data["yr3_annual_rent"], data["yr4_annual_rent"],
                       data["rent_escalation_pct"])
        /\ IsEscalated(data["yr4_annual_rent"], data["yr5_annual_rent"],
                       data["rent_escalation_pct"])

\* C4 witness: a document whose year-2 rent is not the exact product (the
\* rounding acted) and whose year-3 rent is not year 1 escalated twice
\* without the rounding in between.
C4_Witness ==
    /\ pc = "build"
    /\ (data["annual_base_rent"] % 10000) * data["rent_escalation_pct"] % 10000 # 0
    /\ data["yr3_annual_rent"] > data["yr2_annual_rent"]

\* C5: a second run of main with the same seed writes, for every document
\* it builds, the values the first run wrote.
C5_SameSeedSameValues ==
    (run = "second" /\ exc = "") =>
        \A f \in DOMAIN files : files[f] = prevFiles[f]

\* C6: no randint is given an empty range; every field drawn from a range
\* lies within its bounds, ends included; and office_sqft lies within
\* [2000, int(total_rentable_sqft * 0.05)].
C6_RangeBounds ==
    /\ exc # "ValueError"
    /\ \A k \in DOMAIN DeclaredRange : DeclaredRange[k][1] <= DeclaredRange[k][2]
    /\ pc = "build" =>
           /\ \A k \in DOMAIN DeclaredRange :
                  /\ DeclaredRange[k][1] <= data[k]
                  /\ data[k] <= DeclaredRange[k][2]
           /\ 2000 <= (data["total_rentable_sqft"] * 5) \div 100
           /\ 2000 <= data["office_sqft"]
           /\ data["office_sqft"] <= (data["total_rentable_sqft"] * 5) \div 100

\* C6 witness: a document with the smallest building, 80,000 square feet,
\* whose office range is [2000, 4000], and another field at an end of its
\* range.
C6_Witness ==
    /\ pc = "build"
    /\ data["total_rentable_sqft"] = 80000
    /\ data["office_sqft"] <= 4000
    /\ \E k \in DOMAIN DeclaredRange \ {"total_rentable_sqft"} :
           data[k] \in {DeclaredRange[k][1], DeclaredRange[k][2]}

\* C7: every field drawn from a pool holds a member of the pool, the three
\* tenant fields are one entry of TENANT_COMPANIES and the five property
\* fields one entry of PROPERTY_ADDRESSES.
C7_PoolMembership ==
    pc = "build" =>
        /\ \A k \in DOMAIN DeclaredPool : data[k] \in DeclaredPool[k]
        /\ \E i \in DOMAIN TENANT_COMPANIES :
               TENANT_COMPANIES[i] =
                   <<data["tenant_name"], data["tenant_state"],
                     data["tenant_business_type"]>>
        /\ \E i \in DOMAIN PROPERTY_ADDRESSES :
               PROPERTY_ADDRESSES[i] =
                   <<data["property_address"][1], data["property_city"],
                     data["property_state"], data["property_zip"],
                     data["property_county"]>>

\* C7 witness: a document whose tenant is not the first entry of its pool
\* and whose property is not the first entry of its pool.
C7_Witness ==
    /\ pc = "build"
    /\ data["tenant_name"] # TENANT_COMPANIES[1][1]
    /\ data["property_city"] # PROPERTY_ADDRESSES[1][2]
    /\ data["market"] \in DeclaredPool["market"]

\* The order the sections are declared in.
DeclaredOrder ==
    <<"core", "financial", "opex", "options", "insurance", "construction",
      "default", "environmental", "miscellaneous">>

\* C8: the section mappings are assigned in the declared order, and a
\* generator that is passed core is called only when core is assigned:
\* nothing is read from a section that has not completed.
C8_DeclaredOrder ==
    /\ exc # "UnboundLocalError"
    /\ pc = "sections" =>
           /\ DOMAIN locals = {DeclaredOrder[j] : j \in 1 .. (idx - 1)}
           /\ CallOrder[idx] = DeclaredOrder[idx]
           /\ CallOrder[idx] \in TakesCore => "core" \in DOMAIN locals
    /\ pc \in {"merge", "build"} =>
           DOMAIN locals = {DeclaredOrder[j] : j \in 1 .. 9}

\* C8 witness: eight sections are done and miscellaneous, which reads core,
\* is next.
C8_Witness ==
    /\ pc = "sections"
    /\ idx = 9
    /\ Cardinality(DOMAIN locals) = 8
    /\ CallOrder[idx] = "miscellaneous"

\* C9: no lookup by name fails: the keys a generator looks up in core are in
\* core when it is called, and the keys build_lease_pdf quotes are in the
\* merged record.
C9_NoMissingKey ==
    /\ exc # "KeyError"
    /\ (pc = "sections" /\ CallOrder[idx] \in TakesCore /\ "core" \in DOMAIN locals) =>
           Reads[CallOrder[idx]] \subseteq DOMAIN locals["core"]
    /\ pc = "build" =>
           /\ UnconditionalRefs \subseteq DOMAIN data
           /\ data["free_rent_months"] > 0 => AbatementRefs \subseteq DOMAIN data

\* C9 witness: a record with free rent, so the abatement sentence is
\* rendered and looks up free_rent_conditions, is about to be rendered.
C9_Witness ==
    /\ pc = "build"
    /\ data["free_rent_months"] > 0
    /\ RenderRefs(data) = UnconditionalRefs \cup AbatementRefs
    /\ RenderRefs(data) \subseteq DOMAIN data

----------------------------------------------------------------------------
(* The merge loop on section mappings that share names *)

\* The shipped generators never share a public name, so the merge loop's
\* treatment of a repeated name is exercised on section mappings drawn from
\* small sets: core, financial and miscellaneous each map some of MergeKeys
\* to MergeValues, the other six sections are empty.
MergeKeys == {"lease_id", "_sqft"}
MergeValues == {1, 2}

SectionMappings == UNION {[ks -> MergeValues] : ks \in SUBSET MergeKeys}

InitMerge ==
    /\ pc = "merge"
    /\ run = "first"
    /\ num = RangeStart
    /\ idx = Len(CallOrder)
    /\ rng = 0
    /\ seed42 = 0
    /\ now = [y |-> 2026, m |-> 11, d |-> 5]
    /\ ticks = 0
    /\ locals \in
           {[n \in {CallOrder[i] : i \in DOMAIN CallOrder} |->
                IF n = "core" THEN a
                ELSE IF n = "financial" THEN b
                ELSE IF n = "miscellaneous" THEN c
                ELSE <<>>] : a, b, c \in SectionMappings}
    /\ data = <<>>
    /\ ret = <<>>
    /\ total_fields = 0
    /\ stdout = << <<"Complex Lease Generator -- Phase 2">> >>
    /\ files = <<>>
    /\ exc = ""
    /\ prevFiles = <<>>
    /\ schemas = {}
    /\ generated_files = <<>>

NextMerge == Merge

SpecMerge == InitMerge /\ [][NextMerge]_vars

\* Two of the section mappings lv share a public name.
Collides(lv) ==
    \E a, b \in DOMAIN lv :
        a # b /\ PublicKeys(lv[a]) \cap PublicKeys(lv[b]) # {}

\* The places in MergeOrder of the sections of lv that emit public name k.
Emitters(k, lv) ==
    {i \in DOMAIN MergeOrder : k \in PublicKeys(lv[MergeOrder[i]])}

\* The last of them.
LastEmitter(k, lv) ==
    CHOOSE i \in Emitters(k, lv) : \A j \in Emitters(k, lv) : j <= i

----------------------------------------------------------------------------
(* The generators and the renderer on a core mapping that lacks a field *)

\* The shipped gen_core_terms returns every key that is looked up, so a
\* lookup of a field that was not produced is exercised on core mappings with
\* one key left out: core has been assigned, the other sections, the merge
\* and build_lease_pdf follow.
DroppedKeys ==
    {{}, {"_sqft"}, {"lease_term_months"}, {"property_county"}, {"lease_id"}}

Without(mapping, keys) == [k \in DOMAIN mapping \ keys |-> mapping[k]]

InitDangling ==
    /\ pc = "sections"
    /\ run = "first"
    /\ num = RangeStart
    /\ idx = 2
    /\ seed42 \in RngStates
    /\ rng = Advance(seed42, Draws["core"])
    /\ now = [y |-> 2026, m |-> 11, d |-> 5]
    /\ ticks = 0
    /\ locals \in {("core" :> Without(gen_core_terms(seed42, now), dropped)) :
                      dropped \in DroppedKeys}
    /\ data = <<>>
    /\ ret = <<>>
    /\ total_fields = 0
    /\ stdout = << <<"Complex Lease Generator -- Phase 2">> >>
    /\ files = <<>>
    /\ exc = ""
    /\ prevFiles = <<>>
    /\ schemas = {}
    /\ generated_files = <<>>

NextDangling ==
    \/ GenFinancial
    \/ GenOperatingExpenses
    \/ GenOptions
    \/ GenInsuranceLiability
    \/ GenConstructionAlterations
    \/ GenDefaultRemedies
    \/ GenEnvironmentalCompliance
    \/ GenMiscellaneous
    \/ Merge
    \/ BuildLeasePdf
    \/ ReturnFilenameAndCount

SpecDangling == InitDangling /\ [][NextDangling]_vars

\* The keys looked up in core by a generator, or quoted by build_lease_pdf
\* from the merged record, that core does not hold.
Unresolved ==
    IF "core" \in DOMAIN locals
    THEN (UNION {Reads[n] : n \in DOMAIN Reads}
            \cup (UnconditionalRefs \cap DOMAIN gen_core_terms(0, now)))
         \ DOMAIN locals["core"]
    ELSE {}

----------------------------------------------------------------------------
(* The range and pool helpers on bounds and pools the scripts never pass *)

\* Every call in the scripts passes low <= high and a non-empty pool, so the
\* helpers' treatment of other arguments is exercised on arguments drawn from
\* small sets: locals holds the function about to be called and its
\* arguments (hundredths for rand_dollar and rand_pct, days for
\* rand_date_future).
DomainBounds == {30, 120, 450}
DomainPools == {<<>>, <<"Yes", "No">>, <<"Delaware", "Texas", "Ohio">>}
DomainFunctions == {"rand_dollar", "rand_pct", "rand_date_future", "choice"}

InitDomain ==
    /\ pc = "call"
    /\ run = "first"
    /\ num = 0
    /\ idx = 0
    /\ rng \in RngStates
    /\ seed42 = 0
    /\ now = [y |-> 2026, m |-> 11, d |-> 5]
    /\ ticks = MaxTicks
    /\ locals \in [fn : DomainFunctions, low : DomainBounds, high : DomainBounds,
                   pool : DomainPools]
    /\ data = <<>>
    /\ ret = <<>>
    /\ total_fields = 0
    /\ stdout = <<>>
    /\ files = <<>>
    /\ exc = ""
    /\ prevFiles = <<>>
    /\ schemas = {}
    /\ generated_files = <<>>

\* The call returns value, having made one draw.
Resolved(value) ==
    /\ ret' = <<value>>
    /\ rng' = Advance(rng, 1)
    /\ pc' = "resolved"
    /\ UNCHANGED <<generated_files, run, num, idx, seed42, now, ticks, locals,
                   data, total_fields, stdout, files, exc, prevFiles, schemas>>

\* rand_dollar(low, high): random.uniform takes any two bounds.
CallRandDollar ==
    /\ pc = "call"
    /\ locals.fn = "rand_dollar"
    /\ Resolved(rand_dollar(locals.low, locals.high, Raw(rng, 1)))

\* rand_pct(low, high)
CallRandPct ==
    /\ pc = "call"
    /\ locals.fn = "rand_pct"
    /\ Resolved(rand_pct(locals.low, locals.high, Raw(rng, 1)))

\* C12 mutant: rand_date_future puts its bounds in order before the draw.
CallRandDateFuture_Sorts ==
    /\ pc = "call"
    /\ locals.fn = "rand_date_future"
    /\ Resolved(rand_date_future(now,
                                 IF locals.low > locals.high THEN locals.high ELSE locals.low,
                                 IF locals.low > locals.high THEN locals.low ELSE locals.high,
                                 Raw(rng, 1)))

\* rand_date_future(min_days, max_days): random.randint raises ValueError on
\* an empty range.
CallRandDateFuture ==
    /\ pc = "call"
    /\ locals.fn = "rand_date_future"
    /\ IF locals.low > locals.high
       THEN Raise("ValueError")
       ELSE Resolved(rand_date_future(now, locals.low, locals.high, Raw(rng, 1)))

\* random.choice(pool): IndexError on an empty sequence.
CallChoice ==
    /\ pc = "call"
    /\ locals.fn = "choice"
    /\ IF locals.pool = <<>>
       THEN Raise("IndexError")
       ELSE Resolved(choice(locals.pool, Raw(rng, 1)))

NextDomain ==
    \/ CallRandDollar
    \/ CallRandPct
    \/ CallRandDateFuture
    \/ CallChoice

SpecDomain == InitDomain /\ [][NextDomain]_vars

\* The call's range has low > high, or its pool is empty.
InvalidDomain ==
    IF locals.fn = "choice" THEN locals.pool = <<>> ELSE locals.low > locals.high

----------------------------------------------------------------------------
(* Claims about the batch drivers *)

\* The lines a main prints after its loops.
SummaryLines ==
    {j \in DOMAIN stdout :
        stdout[j][1] \in {"Total extractable fields per lease",
                          "Generated lease documents"}}

C14_NoPartialArtifact ==
    /\ pc \in {"build", "built"} =>
           /\ DOMAIN locals = {MergeOrder[i] : i \in DOMAIN MergeOrder}
           /\ data = MergeSections(<<>>, MergeOrder, locals)
    /\ Filename(num) \in DOMAIN files =>
           \/ pc \in {"built", "returned"}
           \/ pc = "crashed" /\ exc = "OSError"
    /\ pc = "built" => files[Filename(num)] = Story(data)
    /\ exc \in {"KeyError", "ValueError", "UnboundLocalError"} =>
           Filename(num) \notin DOMAIN files

\* C14 witness: lease_term_months is missing from core, gen_options failed
\* after two sections, and there is no file.
C14_Witness ==
    /\ pc = "crashed"
    /\ exc = "KeyError"
    /\ DOMAIN locals = {"core", "financial", "opex"}
    /\ data = <<>>
    /\ files = <<>>

\* C15: each call of generate_complex_lease starts with no section mapping
\* and builds its record from the empty mapping and its own nine sections; a
\* section mapping, core included, is never changed after it is assigned, as
\* long as the call lasts; and build_lease_pdf leaves the record as it
\* received it, quoting its values in the story.
C15_RecordLifecycle ==
    /\ [](/\ (pc = "sections" /\ idx = 1) => locals = <<>>
          /\ pc \in {"sections", "merge"} => data = <<>>
          /\ pc = "build" => data = MergeSections(<<>>, MergeOrder, locals))
    /\ [][\A n \in DOMAIN locals \cap DOMAIN locals' : locals'[n] = locals[n]]_vars
    /\ [][(pc = "build" /\ pc' = "built") =>
              (data' = data /\ files'[Filename(num)] = Story(data))]_vars

\* C15 witness: the second document's record has been rendered; it is the
\* record build_lease_pdf was given, all 351 fields, and differs from the
\* first document's.
C15_Witness ==
    /\ pc = "built"
    /\ num = 2
    /\ Cardinality(DOMAIN data) = 351
    /\ data = MergeSections(<<>>, MergeOrder, locals)
    /\ files[Filename(2)] = Story(data)
    /\ files[Filename(1)] # files[Filename(2)]

\* The file names of the phase-1 batch, in the order main generates them.
P1ExpectedNames ==
    << <<"lease_high_risk_", <<0, 0, 1>>, ".pdf">>,
       <<"lease_high_risk_", <<0, 0, 2>>, ".pdf">>,
       <<"lease_medium_risk_", <<0, 0, 1>>, ".pdf">>,
       <<"lease_medium_risk_", <<0, 0, 2>>, ".pdf">>,
       <<"lease_standard_", <<0, 0, 1>>, ".pdf">>,
       <<"lease_standard_", <<0, 0, 2>>, ".pdf">>,
       <<"lease_spanish_miami_001.pdf">> >>

\* The file names of the phase-2 batch.
P2ExpectedNames ==
    << <<"complex_lease_", <<0, 0, 1>>, ".pdf">>,
       <<"complex_lease_", <<0, 0, 2>>, ".pdf">>,
       <<"complex_lease_", <<0, 0, 3>>, ".pdf">> >>

\* C16: whatever the draws and the clock, the k-th document of a batch gets
\* the k-th name of the fixed list -- a category label, the sequence number
\* padded to 3 digits, ".pdf" -- so no two documents of a run share a name,
\* and no file has another name.
C16_DeterministicNames ==
    /\ \A j \in GeneratedLines : stdout[j][2] = P2ExpectedNames[j - 1]
    /\ pc = "returned" => ret[1] = P2ExpectedNames[num]
    /\ \A j \in DOMAIN generated_files : generated_files[j] = P1ExpectedNames[j]
    /\ \A i, j \in GeneratedLines : i # j => stdout[i][2] # stdout[j][2]
    /\ \A i, j \in DOMAIN generated_files :
           i # j => generated_files[i] # generated_files[j]
    /\ DOMAIN files \subseteq
           {P1ExpectedNames[j] : j \in DOMAIN P1ExpectedNames}
               \cup {P2ExpectedNames[j] : j \in DOMAIN P2ExpectedNames}

\* C16 witness: phase 1 has generated its seven documents, seven files with
\* seven names.
C16_Witness ==
    /\ pc = "p1_summary"
    /\ Len(generated_files) = 7
    /\ Cardinality(DOMAIN files) = 7
    /\ generated_files[7] = <<"lease_spanish_miami_001.pdf">>

\* How far a process is from its end, at most: every step of either script
\* lowers it.  Phase 2 spends at most 20 steps on a document, phase 1 at
\* most 3 on a document and 10 on a block; the second run comes after the
\* first.
StepsLeft ==
    (IF run = "first" THEN 200 ELSE 0) +
    CASE pc \in {"main", "p1_main"} -> 100
      [] pc = "loop" -> ((RangeStop - num) * 20) + 19
      [] pc = "sections" -> ((RangeStop - num) * 20) + (18 - idx)
      [] pc = "merge" -> ((RangeStop - num) * 20) + 8
      [] pc = "build" -> ((RangeStop - num) * 20) + 7
      [] pc = "built" -> ((RangeStop - num) * 20) + 6
      [] pc = "returned" -> ((RangeStop - num) * 20) + 5
      [] pc = "p1_loop" -> ((5 - idx) * 10) + ((P1RangeStop - num) * 3) + 2
      [] pc = "p1_build" -> ((5 - idx) * 10) + ((P1RangeStop - num) * 3) + 1
      [] pc \in {"summary", "p1_summary"} -> 1
      [] OTHER -> 0

\* C17: when the phase-2 main reaches its summary it has generated exactly
\* three documents, numbered 1, 2, 3 in that order; when the phase-1 main
\* reaches its summary it has generated exactly its seven documents in the
\* order high-risk 1, 2, medium-risk 1, 2, standard 1, 2, Spanish, and it
\* returns that list; and no run goes on for ever: every step brings the
\* process nearer to its end.
C17_FixedBatch ==
    /\ [](pc \in {"summary", "exit"} =>
             /\ GeneratedLines = {2, 3, 4}
             /\ \A n \in 1 .. 3 : stdout[n + 1][2] = P2ExpectedNames[n])
    /\ [](pc \in {"p1_summary", "p1_exit"} => generated_files = P1ExpectedNames)
    /\ [](pc = "p1_exit" => ret = P1ExpectedNames)
    /\ [](StepsLeft >= 0)
    /\ [][StepsLeft' < StepsLeft]_vars

\* C17 witness: the phase-1 main has returned its seven file names.
C17_Witness ==
    /\ pc = "p1_exit"
    /\ Len(ret) = 7
    /\ ret[1] = <<"lease_high_risk_", <<0, 0, 1>>, ".pdf">>
    /\ ret[7] = <<"lease_spanish_miami_001.pdf">>
    /\ stdout[Len(stdout)] = <<"-", ret[7]>>

\* ---------------------------------------------------------------------------
\* The summary's arithmetic on every field count
\* ---------------------------------------------------------------------------

\* The largest field count the summary is tried on.
MaxFields == 400

\* main after its loop, with any field count in total_fields.
InitPasses ==
    /\ pc = "summary"
    /\ run = "first"
    /\ num = RangeStop
    /\ idx = 1
    /\ rng = 0
    /\ seed42 = 0
    /\ now = [y |-> 2026, m |-> 11, d |-> 5]
    /\ ticks = 0
    /\ locals = <<>>
    /\ data = <<>>
    /\ ret = <<>>
    /\ total_fields \in 0 .. MaxFields
    /\ stdout = << <<"Complex Lease Generator -- Phase 2">> >>
    /\ files = <<>>
    /\ exc = ""
    /\ prevFiles = <<>>
    /\ schemas = {}
    /\ generated_files = <<>>

NextPasses == MainSummary

SpecPasses == InitPasses /\ [][NextPasses]_vars

\* The pass count main printed.
ReportedPasses == stdout[Len(stdout)][2]

\* C18: the "Minimum passes needed" main reports is the ceiling of
\* total_fields / 100 for every non-negative field count: the least p with
\* 100 p >= total_fields; 0 for 0 fields, k for 100 k, k + 1 for
\* 100 k + 1 .. 100 k + 99; and 4 for 351 fields.
C18_PassesAreCeiling ==
    pc = "exit" =>
        /\ stdout[Len(stdout)][1] = "Minimum passes needed"
        /\ ReportedPasses * 100 >= total_fields
        /\ (ReportedPasses - 1) * 100 < total_fields
        /\ total_fields = 0 => ReportedPasses = 0
        /\ \A k \in 0 .. (MaxFields \div 100) :
               /\ total_fields = 100 * k => ReportedPasses = k
               /\ total_fields \in (100 * k) + 1 .. (100 * k) + 99 =>
                      ReportedPasses = k + 1
        /\ total_fields = 351 => ReportedPasses = 4

\* C18 witness: the summary of 351 fields reports 4 passes, and that of 300
\* fields would report 3.
C18_Witness ==
    /\ pc = "exit"
    /\ total_fields = 351
    /\ stdout[Len(stdout)] = <<"Minimum passes needed", 4>>
    /\ MinimumPasses(300) = 3

\* ---------------------------------------------------------------------------
\* One seed for the batch
\* ---------------------------------------------------------------------------

RECURSIVE BatchState(_, _)
\* The state of the random source when the i-th generator of document n is
\* called, in a batch seeded once: the seeded state advanced by the draws of
\* documents RangeStart .. n - 1 and of the generators before the i-th.
BatchState(n, i) ==
    IF i > 1
    THEN [s \in RngStates |-> Advance(s, Draws[CallOrder[i - 1]])]
             [BatchState(n, i - 1)]
    ELSE IF n > RangeStart THEN BatchState(n - 1, Len(CallOrder) + 1)
    ELSE seed42

\* C19: the random source is seeded once, before the first document, and
\* not again: at every point of the loop its state is the seeded state
\* advanced by the draws made so far in the batch, so the i-th generator of
\* document N starts from the seeded state advanced by all the draws of
\* documents 1..N-1 and of the generators before it, and its section is what
\* it generates from that state.  Unless the source is back in its seeded
\* state when document N starts, the core terms generated for document N
\* alone, from the seeded state on the same day, are not the core terms
\* document N has in the batch.
C19_SeededOncePerBatch ==
    /\ pc = "loop" => rng = BatchState(num, 1)
    /\ pc = "sections" => rng = BatchState(num, idx)
    /\ pc \in {"merge", "build", "built", "returned"} =>
           rng = BatchState(num + 1, 1)
    /\ pc = "sections" /\ idx > 1 =>
           \A s \in {BatchState(num, idx - 1)} :
               locals[CallOrder[idx - 1]] =
                   CallGenerator(CallOrder[idx - 1], s, locals, now)
    /\ (/\ pc = "sections"
        /\ idx = 2
        /\ num > RangeStart
        /\ BatchState(num, 1) # seed42)
       => locals["core"] # gen_core_terms(seed42, now)

\* C19 witness: the second document's core terms have been drawn from the
\* state the first document left, and they are not those the seeded state
\* gives.
C19_Witness ==
    /\ pc = "sections"
    /\ idx = 2
    /\ num = RangeStart + 1
    /\ rng = Advance(BatchState(RangeStart, Len(CallOrder) + 1), Draws["core"])
    /\ \A s \in {BatchState(RangeStart, Len(CallOrder) + 1)} :
           locals["core"] = gen_core_terms(s, now)
    /\ locals["core"] # gen_core_terms(seed42, now)

\* ---------------------------------------------------------------------------
\* One document after another
\* ---------------------------------------------------------------------------

\* The documents of this batch before document n.
EarlierDocuments(n) == RangeStart .. (n - 1)

\* C20: while the fields of document i+1 are drawn, merged and rendered,
\* every earlier document of the batch has been rendered (its file is
\* written) and reported, and in a first run no other file exists; a call of
\* generate_complex_lease starts with no section and no record of an earlier
\* document, and holds only the sections it has generated itself so far; and
\* a document's file is written before its call returns.
C20_StrictlySequential ==
    /\ pc = "sections" =>
           /\ DOMAIN locals = {CallOrder[j] : j \in 1 .. (idx - 1)}
           /\ DOMAIN data = {}
    /\ pc \in {"sections", "merge", "build"} =>
           /\ \A k \in EarlierDocuments(num) :
                  /\ Filename(k) \in DOMAIN files
                  /\ DOMAIN files[Filename(k)] # {}
                  /\ stdout[(k - RangeStart) + 2][1] = "Generated"
                  /\ stdout[(k - RangeStart) + 2][2] = Filename(k)
           /\ Len(stdout) = (num - RangeStart) + 1
           /\ run = "first" =>
                  DOMAIN files = {Filename(k) : k \in EarlierDocuments(num)}
    /\ pc \in {"built", "returned"} =>
           /\ Filename(num) \in DOMAIN files
           /\ Len(stdout) = (num - RangeStart) + 1

\* C20 witness: the first field of the third document is about to be drawn,
\* with the first two documents written and reported and nothing but the
\* random source's state left of them.
C20_Witness ==
    /\ pc = "sections"
    /\ idx = 1
    /\ num = RangeStart + 2
    /\ run = "first"
    /\ DOMAIN files = {Filename(RangeStart), Filename(RangeStart + 1)}
    /\ Len(stdout) = 3
    /\ locals = <<>>
    /\ rng = BatchState(num, 1)

\* ---------------------------------------------------------------------------
\* What the emitted paragraphs quote
\* ---------------------------------------------------------------------------

\* The fields the paragraphs of the document just written quote.
Quoted == DOMAIN files[Filename(num)]

\* C21 as stated: the paragraphs build_lease_pdf emits quote every field of
\* the merged record, whatever the values, free_rent_months = 0 included.
C21_EveryFieldQuoted ==
    pc = "built" => Quoted = DOMAIN data

\* C21: the paragraphs build_lease_pdf emits quote every field of the merged
\* record when free_rent_months > 0; when free_rent_months = 0 the fixed
\* "no abatement" text replaces the only paragraph that quotes
\* free_rent_months and free_rent_conditions, and the emitted paragraphs
\* quote every field but these two.
C21_EveryFieldButAbatementQuoted ==
    pc = "built" =>
        /\ Cardinality(DOMAIN data) = 351
        /\ Quoted \subseteq DOMAIN data
        /\ \A k \in Quoted : files[Filename(num)][k] = data[k]
        /\ IF data["free_rent_months"] > 0
           THEN Quoted = DOMAIN data
           ELSE Quoted =
                    DOMAIN data \ {"free_rent_months", "free_rent_conditions"}

\* C21 witness: a document with no free rent has been written, and it quotes
\* 349 of the record's 351 fields.
C21_Witness ==
    /\ pc = "built"
    /\ data["free_rent_months"] = 0
    /\ Cardinality(DOMAIN data) = 351
    /\ Cardinality(Quoted) = 349
    /\ "free_rent_conditions" \notin Quoted

\* ---------------------------------------------------------------------------
\* What the later sections take from the core terms
\* ---------------------------------------------------------------------------

\* The locals with core cut down to the keys the generator `name` reads.
OnlyConsumed(lv, name) ==
    [n \in DOMAIN lv |->
        IF n = "core" THEN [k \in Reads[name] |-> lv["core"][k]] ELSE lv[n]]

\* C22: the sections are coupled only through the consumed fields of the core
\* terms.  A generator that is passed core yields the same section from a
\* core holding nothing but the keys it reads; the square footage Financial,
\* Operating Expenses and Construction multiply by is the published
\* total_rentable_sqft; and governing_law_state, jurisdiction_venue and
\* parking_allocation are built from the property_state, property_county
\* and parking counts of the same document.
C22_CoupledThroughCore ==
    /\ (pc = "sections" /\ idx > 1 /\ CallOrder[idx - 1] \in TakesCore) =>
           \A s \in {BatchState(num, idx - 1)} :
               locals[CallOrder[idx - 1]] =
                   CallGenerator(CallOrder[idx - 1], s,
                                 OnlyConsumed(locals, CallOrder[idx - 1]), now)
    /\ pc = "build" =>
           /\ locals["core"]["_sqft"] = data["total_rentable_sqft"]
           /\ data["annual_base_rent"] =
                  MulRound2(data["total_rentable_sqft"], data["base_rent_psf"])
           /\ data["ti_allowance_total"] =
                  MulRound2Wide(data["total_rentable_sqft"], data["ti_allowance_psf"])
           /\ data["cam_annual_estimate"] =
                  MulRound2(data["total_rentable_sqft"], data["cam_psf_estimate"])
           /\ data["tax_annual_estimate"] =
                  MulRound2(data["total_rentable_sqft"], data["tax_psf_estimate"])
           /\ data["insurance_annual_estimate"] =
                  MulRound2(data["total_rentable_sqft"],
                            data["insurance_psf_estimate"])
           /\ \E rate \in 250 .. 450 :
                  data["opex_base_year_amount"] =
                      MulRound2(data["total_rentable_sqft"], rate)
           /\ \E rate \in 100 .. 300 :
                  data["restoration_cost_estimate"] =
                      <<"$", MulRound2(data["total_rentable_sqft"], rate)>>
           /\ data["governing_law_state"] = data["property_state"]
           /\ data["jurisdiction_venue"] =
                  <<data["property_county"], " County, ", data["property_state"]>>
           /\ data["parking_allocation"] =
                  <<data["auto_parking_spaces"], " auto spaces, ",
                    data["trailer_parking_spaces"], " trailer spaces">>

\* C22 witness: a record is merged whose Financial, Operating Expenses and
\* Construction totals are all products of its total_rentable_sqft, which is
\* not the warehouse area, and whose venue names its county.
C22_Witness ==
    /\ pc = "build"
    /\ data["total_rentable_sqft"] # data["warehouse_sqft"]
    /\ data["cam_annual_estimate"] =
           data["total_rentable_sqft"] * data["cam_psf_estimate"]
    /\ data["cam_annual_estimate"] #
           data["warehouse_sqft"] * data["cam_psf_estimate"]
    /\ data["jurisdiction_venue"][1] = locals["core"]["property_county"]
    /\ data["governing_law_state"] = locals["core"]["property_state"]

\* ---------------------------------------------------------------------------
\* The internal helper keys
\* ---------------------------------------------------------------------------

\* The keys of the section mappings that begin with an underscore.
HelperKeys == {"_start", "_end", "_sqft"}

\* C23: the merged record handed to build_lease_pdf holds no key that starts
\* with an underscore: it holds every key of the nine section mappings but
\* '_start', '_end' and '_sqft'; and the core mapping still holds these three
\* whenever a later generator is called with it, and after the merge.
C23_HelperKeysDropped ==
    /\ pc \in {"build", "built"} =>
           /\ DOMAIN data \cap HelperKeys = {}
           /\ DOMAIN data =
                  UNION {DOMAIN locals[n] : n \in DOMAIN locals} \ HelperKeys
           /\ HelperKeys \subseteq DOMAIN locals["core"]
           /\ locals["core"]["_sqft"] = data["total_rentable_sqft"]
    /\ (pc = "sections" /\ idx > 1) => HelperKeys \subseteq DOMAIN locals["core"]
    /\ pc = "merge" => HelperKeys \subseteq DOMAIN locals["core"]

\* C23 witness: a record of 351 fields is handed to build_lease_pdf while the
\* nine section mappings hold 354 keys, the three helper keys among core's.
C23_Witness ==
    /\ pc = "build"
    /\ Cardinality(DOMAIN data) = 351
    /\ Cardinality(UNION {DOMAIN locals[n] : n \in DOMAIN locals}) = 354
    /\ HelperKeys \subseteq DOMAIN locals["core"]
    /\ DOMAIN data \cap HelperKeys = {}

\* ---------------------------------------------------------------------------
\* Phase 1: rent, deposit and improvement allowance
\* ---------------------------------------------------------------------------

\* amount, in hundredths as printed with two decimals, is the quotient
\* total / parts to the nearest hundredth.
NearestHundredth(amount, total, parts) ==
    /\ (2 * ((amount * parts) - total)) <= parts
    /\ (2 * (total - (amount * parts))) <= parts

\* The phase-1 lease just generated is of a kind that states a deposit.
StatesDeposit == pc = "p1_build" /\ idx \in {2, 3, 4}

\* C24: in every phase-1 lease annual_rent is sqft x rent_psf; a medium-risk
\* lease's security deposit is one month of it (annual_rent / 12) and its
\* tenant-improvement allowance 55.00 a square foot; a standard lease's and
\* the Spanish lease's deposit is two months (2 x annual_rent / 12) and the
\* allowance 25.00; and the allowance total printed is ti_allowance x sqft.
C24_PhaseOneAmounts ==
    /\ pc = "p1_build" => locals.annual_rent = locals.sqft * locals.rent_psf
    /\ StatesDeposit =>
           /\ locals.ti_allowance = (IF idx = 2 THEN 5500 ELSE 2500)
           /\ locals.ti_allowance_total = locals.ti_allowance * locals.sqft
           /\ NearestHundredth(locals.security_deposit,
                               (IF idx = 2 THEN 1 ELSE 2) * locals.annual_rent, 12)
    /\ (pc = "p1_build" /\ idx = 4) =>
           /\ locals.sqft = 185000
           /\ locals.rent_psf = 725
           /\ locals.security_deposit = 22354167

\* C24 witness: a medium-risk lease is generated whose annual rent is not a
\* whole number of months' cents, with a deposit of one month and not two,
\* after a high-risk lease was written with rent sqft x rent_psf.
C24_Witness ==
    /\ pc = "p1_build"
    /\ idx = 2
    /\ locals.annual_rent % 12 # 0
    /\ locals.security_deposit * 12 < locals.annual_rent + 12
    /\ locals.security_deposit * 12 > locals.annual_rent - 12
    /\ locals.ti_allowance_total = 5500 * locals.sqft
    /\ \E f \in DOMAIN files :
           /\ f[1] = "lease_high_risk_"
           /\ files[f].annual_rent = files[f].sqft * files[f].rent_psf

\* ---------------------------------------------------------------------------
\* Areas
\* ---------------------------------------------------------------------------

\* C25: in every document office_sqft + warehouse_sqft = total_rentable_sqft,
\* 2000 <= office_sqft <= 5% of total_rentable_sqft, and warehouse_sqft > 0;
\* the same holds of the core terms as soon as they are drawn.
C25_AreasAddUp ==
    /\ pc \in {"build", "built"} =>
           /\ data["office_sqft"] + data["warehouse_sqft"] =
                  data["total_rentable_sqft"]
           /\ 2000 <= data["office_sqft"]
           /\ 20 * data["office_sqft"] <= data["total_rentable_sqft"]
           /\ data["warehouse_sqft"] > 0
    /\ (pc = "sections" /\ idx > 1) =>
           /\ locals["core"]["office_sqft"] + locals["core"]["warehouse_sqft"] =
                  locals["core"]["total_rentable_sqft"]
           /\ 2000 <= locals["core"]["office_sqft"]
           /\ 20 * locals["core"]["office_sqft"] <=
                  locals["core"]["total_rentable_sqft"]
           /\ locals["core"]["warehouse_sqft"] > 0

\* C25 witness: a merged record whose office area is above the minimum and
\* more than 4% of the total, the warehouse the rest.
C25_Witness ==
    /\ pc = "build"
    /\ data["office_sqft"] > 2000
    /\ 25 * data["office_sqft"] > data["total_rentable_sqft"]
    /\ data["warehouse_sqft"] = data["total_rentable_sqft"] - data["office_sqft"]
    /\ data["warehouse_sqft"] > 0

\* ---------------------------------------------------------------------------
\* Dates
\* ---------------------------------------------------------------------------

\* The date a '%B %d, %Y' text names.
DateOf(text) ==
    [y |-> text[3],
     m |-> CHOOSE i \in DOMAIN MonthNames : MonthNames[i] = text[1],
     d |-> text[2]]

\* C26: the dates of every document are ordered
\* execution_date < lease_start_date <= rent_commencement_date < lease_end_date:
\* the execution is 14 to 60 days before the start, the rent commencement is
\* the start plus 0 to 3 months, and the end is the start plus
\* lease_term_months, which is at least 60.
C26_DatesOrdered ==
    pc \in {"build", "built"} =>
        LET execution == ToOrdinal(DateOf(data["execution_date"]))
            start == ToOrdinal(DateOf(data["lease_start_date"]))
            commence == ToOrdinal(DateOf(data["rent_commencement_date"]))
            end == ToOrdinal(DateOf(data["lease_end_date"]))
        IN  /\ execution < start
            /\ start <= commence
            /\ commence < end
            /\ (start - execution) \in 14 .. 60
            /\ \E k \in 0 .. 3 :
                   DateOf(data["rent_commencement_date"]) =
                       AddMonths(DateOf(data["lease_start_date"]), k)
            /\ data["lease_term_months"] >= 60
            /\ DateOf(data["lease_end_date"]) =
                   AddMonths(DateOf(data["lease_start_date"]),
                             data["lease_term_months"])
            /\ DateOf(data["lease_start_date"]) = locals["core"]["_start"]
            /\ DateOf(data["lease_end_date"]) = locals["core"]["_end"]

\* C26 witness: a merged record whose rent commences after the start, in the
\* month the start plus 1 to 3 months falls in, and whose lease was executed
\* before the start.
C26_Witness ==
    /\ pc = "build"
    /\ ToOrdinal(DateOf(data["rent_commencement_date"])) >
           ToOrdinal(DateOf(data["lease_start_date"]))
    /\ ToOrdinal(DateOf(data["execution_date"])) <
           ToOrdinal(DateOf(data["lease_start_date"]))
    /\ ToOrdinal(DateOf(data["lease_end_date"])) >=
           ToOrdinal(DateOf(data["lease_start_date"])) + (60 * 28)

\* ---------------------------------------------------------------------------
\* The rent schedule
\* ---------------------------------------------------------------------------

\* C27: in every document yr1_annual_rent is annual_base_rent, which is
\* positive; rent_escalation_pct lies in [2.00, 4.00]; and the projected
\* schedule strictly increases, yr1 < yr2 < yr3 < yr4 < yr5.
C27_ScheduleIncreases ==
    pc \in {"build", "built"} =>
        /\ data["yr1_annual_rent"] = data["annual_base_rent"]
        /\ data["yr1_annual_rent"] > 0
        /\ data["rent_escalation_pct"] >= 200
        /\ data["rent_escalation_pct"] <= 400
        /\ data["yr1_annual_rent"] < data["yr2_annual_rent"]
        /\ data["yr2_annual_rent"] < data["yr3_annual_rent"]
        /\ data["yr3_annual_rent"] < data["yr4_annual_rent"]
        /\ data["yr4_annual_rent"] < data["yr5_annual_rent"]

\* C27 witness: a merged record at the lowest escalation, 2.00%, whose five
\* yearly rents still rise, the fifth by more than 8% over the first.
C27_Witness ==
    /\ pc = "build"
    /\ data["rent_escalation_pct"] = 200
    /\ data["yr1_annual_rent"] = data["annual_base_rent"]
    /\ data["yr2_annual_rent"] > data["yr1_annual_rent"]
    /\ data["yr5_annual_rent"] - data["yr1_annual_rent"] >
           8 * (data["yr1_annual_rent"] \div 100)

\* ---------------------------------------------------------------------------
\* Rent abatement
\* ---------------------------------------------------------------------------

\* C28: free_rent_conditions is 'None' exactly when free_rent_months = 0,
\* and the document written quotes free_rent_months and free_rent_conditions
\* exactly when free_rent_months > 0: 'None' is never printed as an
\* abatement condition and an abatement of zero months is never printed.
C28_AbatementOnlyWhenGranted ==
    /\ pc \in {"build", "built"} =>
           /\ data["free_rent_months"] \in 0 .. 6
           /\ (data["free_rent_conditions"] = "None") <=>
                  (data["free_rent_months"] = 0)
    /\ pc = "built" =>
           /\ ("free_rent_months" \in Quoted) <=> (data["free_rent_months"] > 0)
           /\ ("free_rent_conditions" \in Quoted) <=>
                  (data["free_rent_months"] > 0)
           /\ "free_rent_conditions" \in Quoted =>
                  files[Filename(num)]["free_rent_conditions"] # "None"
           /\ "free_rent_months" \in Quoted =>
                  files[Filename(num)]["free_rent_months"] # 0

\* C28 witness: a document with free rent has been written, and it prints
\* the months and the condition that applies to them.
C28_Witness ==
    /\ pc = "built"
    /\ data["free_rent_months"] > 0
    /\ files[Filename(num)]["free_rent_months"] = data["free_rent_months"]
    /\ files[Filename(num)]["free_rent_conditions"] =
           "Applies to base rent only; NNN charges still payable"

\* ---------------------------------------------------------------------------
\* Options and the lease they belong to
\* ---------------------------------------------------------------------------

\* C29: gen_options reads lease_term_months but yields the same options
\* whatever it is; all the same every option deadline fits the lease:
\* termination_option_effective_month, expansion_deadline_month and
\* must_take_deadline_month are each <= lease_term_months, and
\* contraction_min_sqft_retained <= total_rentable_sqft -- in the records
\* generated, and for every pairing of a value of the pools and ranges the
\* draws are made from with a lease term and an area of theirs.
C29_OptionsFitLease ==
    /\ \A k \in {"termination_option_effective_month",
                  "expansion_deadline_month", "must_take_deadline_month"} :
           \A month \in DeclaredPool[k] :
               \A term \in DeclaredPool["lease_term_months"] : month <= term
    /\ DeclaredRange["contraction_min_sqft_retained"][2] <=
           DeclaredRange["total_rentable_sqft"][1]
    /\ (pc = "sections" /\ idx > 1 /\ CallOrder[idx - 1] = "options") =>
           \A s \in {BatchState(num, idx - 1)} :
               \A term \in {1, 60, 180} :
                   locals["options"] = gen_options(s, [lease_term_months |-> term])
    /\ pc \in {"build", "built"} =>
           /\ data["lease_term_months"] \in DeclaredPool["lease_term_months"]
           /\ data["termination_option_effective_month"] \in
                  DeclaredPool["termination_option_effective_month"]
           /\ data["termination_option_effective_month"] <=
                  data["lease_term_months"]
           /\ data["expansion_deadline_month"] <= data["lease_term_months"]
           /\ data["must_take_deadline_month"] <= data["lease_term_months"]
           /\ data["contraction_min_sqft_retained"] <=
                  data["total_rentable_sqft"]

\* C29 witness: a merged record of the shortest lease, 60 months, whose
\* termination option takes effect in its last month.
C29_Witness ==
    /\ pc = "build"
    /\ data["lease_term_months"] = 60
    /\ data["termination_option_effective_month"] = 60
    /\ data["contraction_min_sqft_retained"] <= data["total_rentable_sqft"]

\* ---------------------------------------------------------------------------
\* The draws of one document
\* ---------------------------------------------------------------------------

RECURSIVE DrawsOf(_)
\* The draws the generators of `order` make, one after another.
DrawsOf(order) ==
    IF order = <<>> THEN 0 ELSE Draws[Head(order)] + DrawsOf(Tail(order))

RECURSIVE AfterDraws(_, _)
\* The state of the random source k draws after state s.
AfterDraws(s, k) ==
    IF k <= 32 THEN [x \in RngStates |-> Advance(x, k)][s]
    ELSE AfterDraws([x \in RngStates |-> Advance(x, 32)][s], k - 32)

\* A generator that returns has made its fixed number of draws.
FixedDraws ==
    (pc = "sections" /\ pc' # "crashed") =>
        rng' = Advance(rng, Draws[CallOrder[idx]])

\* C30: the draws made for one complex lease are the same in number and
\* order for every document, whatever the values drawn, the document's
\* number and the clock: each generator makes its fixed number of draws, a
\* document makes 253 in all, and so in every run document N starts
\* 253 x (N - 1) draws after the seed, and its i-th generator the draws of the
\* generators before it later.
C30_SameDrawsEveryDocument ==
    /\ [][FixedDraws]_vars
    /\ [](DrawsOf(CallOrder) = 253)
    /\ [](pc = "sections" =>
             rng = AfterDraws(seed42,
                              (DrawsOf(CallOrder) * (num - RangeStart)) +
                              DrawsOf(SubSeq(CallOrder, 1, idx - 1))))
    /\ [](pc \in {"merge", "build", "built", "returned"} =>
             rng = AfterDraws(seed42,
                              DrawsOf(CallOrder) * ((num - RangeStart) + 1)))

\* C30 witness: in a second run, on a later day than the first began, the
\* third document starts 506 draws after the seed, as it did in the first.
C30_Witness ==
    /\ run = "second"
    /\ ticks > 0
    /\ pc = "sections"
    /\ idx = 1
    /\ num = RangeStart + 2
    /\ rng = AfterDraws(seed42, 506)
    /\ Cardinality({files[f]["total_rentable_sqft"] : f \in DOMAIN files}) > 1

====
